---- MODULE Spec2Model ----
(***************************************************************************)
(* Knowledge cache and indexing engine of community_intern.                *)
(*                                                                         *)
(* One KnowledgeIndexer (knowledge_cache/indexer.py) with the two          *)
(* providers the knowledge base configures (kb/impl.py): FileFolderProvider *)
(* and UrlLinksProvider.  The state is the sources directory, the links    *)
(* file, the fetcher's disk cache, the cache file and the index file on    *)
(* disk, the providers' fields, the run lock and, per caller of run_once,  *)
(* the locals of _run_once_locked and of its enrichment tasks.             *)
(***************************************************************************)
EXTENDS Integers, Sequences, FiniteSets, TLC

\* ---------------------------------------------------------------- bounds
MaxClock == 2
MaxEnvChanges == 1
MaxCrashes == 1
MaxMtime == 1
MaxTicks == 2
MaxWeek == 2
MaxPairs == 2

\* ------------------------------------------------------ program constants
SchemaVersion == 1
\* url_refresh_min_interval_hours and runtime_refresh_tick_seconds, in clock units
RefreshInterval == 2
RetryInterval == 1
\* summarization_concurrency
SummarizationConcurrency == 1
\* url_download_concurrency
DownloadConcurrency == 2

\* callers of KnowledgeIndexer.run_once: the startup build_index task and the
\* runtime loop task, both created by _run_bot on the same indexer
Callers == {"build", "loop"}

\* a source id is a path relative to the sources directory, or a line of the
\* links file; the same string can be both
FileIds == {"a", "b"}
UrlIds == {"b"}
SourceIds == FileIds \cup UrlIds
\* the ids in the order sorted() gives them
IdOrder == <<"a", "b">>

KB_SOURCE_ID_PREFIX == "kb:"
source_type_order == <<"file", "url">>

None == <<>>
Some(x) == <<x>>

\* file texts: "h" and "w" differ in content and agree in size; "h_" is "h" with
\* trailing whitespace (another size, the same canonical text); "ws" is
\* whitespace only; "bin" is not valid UTF-8
FileTexts == {"h", "h_", "w", "ws", "bin"}
\* cleaned page texts a fetch can return
UrlTexts == {"h", "w"}

\* ------------------------------------------------------------ pure helpers
Strip(t) == CASE t = "ws" -> "" [] t = "h_" -> "h" [] OTHER -> t

normalize_text(t) == CASE t = "h_" -> "h" [] t = "ws" -> "" [] OTHER -> t

hash_text(t) == <<"sha256", normalize_text(t)>>

SizeOf(t) == CASE t = "h" -> 5 [] t = "w" -> 5 [] t = "h_" -> 7 [] t = "ws" -> 1 [] OTHER -> 3

format_rfc3339(n) == <<"Z", n>>

\* parse_rfc3339 raises on a string that is not a timestamp
Parsable(s) == s[1] = "Z"

parse_rfc3339(s) == s[2]

\* the text the enrichment client answers for a source text, when it answers
\* with a description
SummaryOf(t) == CASE normalize_text(t) = "h" -> "s_h" [] OTHER -> "s_w"

\* result.text of invoke_llm: a description, or a blank answer
LLMTexts(t) == {SummaryOf(t), "ws"}

Restrict(f, S) == [x \in S |-> f[x]]

EmptyMap == [x \in {} |-> None]

\* ---------------------------------------------------------------- records
FileMetadata(id, size, mtime) == [rel_path |-> id, size_bytes |-> size, mtime_ns |-> mtime]

UrlMetadata(url, fetched, etag, lm, status, next) ==
    [url |-> url, last_fetched_at |-> fetched, etag |-> etag, last_modified |-> lm,
     fetch_status |-> status, next_check_at |-> next]

CacheRecord(ty, h, summary, indexed, pending, file, url) ==
    [source_type |-> ty, content_hash |-> h, summary_text |-> summary,
     last_indexed_at |-> indexed, summary_pending |-> pending, file |-> file, url |-> url]

CacheState(gen, sources) ==
    [schema_version |-> SchemaVersion, generated_at |-> gen, sources |-> sources]

\* ------------------------------------------------------------- cache store
_encode_record(r) ==
    [source_type |-> r.source_type, content_hash |-> r.content_hash,
     summary_text |-> r.summary_text, last_indexed_at |-> r.last_indexed_at,
     summary_pending |-> r.summary_pending,
     file |-> IF r.file # None THEN r.file ELSE None,
     url |-> IF r.url # None THEN r.url ELSE None]

_decode_record(p) ==
    CacheRecord(p.source_type, p.content_hash, p.summary_text, p.last_indexed_at,
                p.summary_pending,
                IF p.file # None THEN p.file ELSE None,
                IF p.url # None THEN p.url ELSE None)

encode_cache(cache) ==
    [schema_version |-> cache.schema_version, generated_at |-> cache.generated_at,
     sources |-> [id \in DOMAIN cache.sources |-> _encode_record(cache.sources[id])]]

\* a decoder that takes every payload to be of the compiled-in schema version
DecodeAsCurrentSchema(payload) ==
    [schema_version |-> SchemaVersion, generated_at |-> payload.generated_at,
     sources |-> [id \in DOMAIN payload.sources |-> _decode_record(payload.sources[id])]]

decode_cache(payload) ==
    [schema_version |-> payload.schema_version, generated_at |-> payload.generated_at,
     sources |-> [id \in DOMAIN payload.sources |-> _decode_record(payload.sources[id])]]

\* a file being written by write_text: anything from empty to a proper prefix;
\* json.loads or decode_cache raises on it
Partial == <<"partial", "partial">>

\* file: None when the cache file is missing, Some(payload) otherwise
read_cache_file(file, n) ==
    IF file = None THEN CacheState(format_rfc3339(n), EmptyMap)
    ELSE IF file = Partial THEN CacheState(format_rfc3339(n), EmptyMap)
    ELSE IF decode_cache(file[1]).schema_version # SchemaVersion
         THEN CacheState(format_rfc3339(n), EmptyMap)
         ELSE decode_cache(file[1])

\* a group that also takes the records with a blank summary
GroupIdsWithBlank(cache, ty) ==
    {id \in DOMAIN cache.sources : cache.sources[id].source_type = ty}

GroupIds(cache, ty) ==
    {id \in DOMAIN cache.sources :
        cache.sources[id].source_type = ty /\ Strip(cache.sources[id].summary_text) # ""}

RECURSIVE SortedEntries(_, _, _)
SortedEntries(cache, ids, i) ==
    IF i > Len(IdOrder) THEN <<>>
    ELSE (IF IdOrder[i] \in ids
          THEN <<[identifier |-> <<KB_SOURCE_ID_PREFIX, IdOrder[i]>>,
                  summary |-> Strip(cache.sources[IdOrder[i]].summary_text)]>>
          ELSE <<>>) \o SortedEntries(cache, ids, i + 1)

RECURSIVE EntriesFrom(_, _)
EntriesFrom(cache, k) ==
    IF k > Len(source_type_order) THEN <<>>
    ELSE SortedEntries(cache, GroupIds(cache, source_type_order[k]), 1) \o EntriesFrom(cache, k + 1)

build_index_entries(cache) == EntriesFrom(cache, 1)

\* the content write_index_file leaves in the index file
write_index_file(entries) == Some(entries)

\* ------------------------------------------------------------------ state
VARIABLES
    files,          \* sources directory: id -> None | Some([text, mtime])
    links,          \* links file: [readable, lines]
    clock,          \* wall clock
    fetchCache,     \* WebFetcher disk cache: url -> "" (no entry) | text
    diskCache,      \* cache file: None | Some(payload)
    indexFile,      \* index file: None | Some(entries)
    file_sources,   \* FileFolderProvider._file_sources (its keys)
    urls,           \* UrlLinksProvider._urls (its keys)
    lock,           \* KnowledgeIndexer._lock: its holder, or "free"
    pc,             \* per caller: where its run_once stands
    now,            \* per caller: now of _run_once_locked
    mem,            \* per caller: cache of _run_once_locked
    disc,           \* per caller: discovered (and owner: the provider of that type)
    changed,        \* per caller: changed of _run_once_locked
    task,           \* per caller: state of the _summarize_one task of each id
    taskText,       \* per caller: text load_text gave each task
    urlTasks,       \* per caller: ids whose _refresh_one task has not finished
    urlAny,         \* per caller: whether a finished _refresh_one returned True
    persisting,     \* the caller inside _persist between its two writes, or "none"
    applied,        \* id -> summary applied by the current or last tick
    loaded,         \* the records of the cache the current tick loaded
    refreshErr,     \* a provider's refresh raised in the current tick
    netReqs,        \* urls the current tick has sent a request for
    discErr,        \* the links file could not be read by the current tick's discovery
    stableRuns,     \* 1 when a tick has completed and no source changed since it began
    tainted,        \* a source changed while the current tick ran
    envChanges,     \* number of source changes so far
    crashes,        \* number of process crashes so far
    built,          \* build_index has called run_once in this process
    ticks,          \* number of run_once calls so far
    busyCalls,      \* callers whose run_once call found the lock held
    fs,             \* atomic writes: path -> None | Partial | Some(content)
    wr,             \* atomic writes: where the caller of _persist stands
    dlsem,          \* url downloads: value of UrlLinksProvider._download_semaphore
    dlpc,           \* url downloads: per url, where its init_record or _refresh_one stands
    dlphase,        \* url downloads: the provider method the indexer awaits
    gtask,          \* enrichment tasks: per record, where its _summarize_one stands
    gtick,          \* enrichment tasks: where the tick that created them stands
    gdisk,          \* enrichment tasks: ids whose summary the cache file holds
    glate,          \* enrichment tasks: ids persisted after the tick had ended
    lpc,            \* runtime loop: where _runtime_loop stands
    bpc,            \* runtime loop: where the build_index task stands
    llock,          \* runtime loop: holder of the indexer's run lock
    stopEvent,      \* runtime loop: KnowledgeBase._stop_event is set
    spc,            \* runtime loop: where _run_bot stands
    lres,           \* runtime loop: how the loop's last tick ended
    lsleep,         \* runtime loop: time left of the sleep's timeout
    sfile,          \* cache store: the cache file, None | Partial | Some(payload)
    sread,          \* cache store: None | Some(what read_cache_file returned)
    sindex,         \* cache store: the index file, None | Some(entries)
    archive,        \* raw archive: week -> the QA pairs of that week's file, in file order
    aweek,          \* raw archive: the week of utc_now()
    alast,          \* raw archive: None | Some(argument of the last load_since)
    aresult,        \* raw archive: the pairs the last load_since returned
    rvCache,        \* re-validation: cache.sources, id -> None | [obj, summary_pending, summary_text]
    rvTask,         \* re-validation: per id, the record its task was given and where the task stands
    rvDisk,         \* re-validation: the records of the cache file
    wfCache,        \* fetcher: cache directory, url -> None | Partial | Some(text)
    wfBrowser,      \* fetcher: self._browser is set
    wfLast,         \* fetcher: None | Some(what the last fetch did)
    rtTask,         \* refresh task: self._runtime_task, None | Some(task)
    rtLoop,         \* refresh task: per loop task made, its position in _runtime_loop
    rtEvent,        \* refresh task: self._stop_event is set
    rtCall,         \* refresh task: per caller, [pc, task its stop call awaits]
    rtMade,         \* refresh task: number of loop tasks created so far
    qstate,         \* team queue: last_processed_qa_id of state.json, None when empty
    qpc,            \* team queue: where process_pending_items stands
    qmem,           \* team queue: state.last_processed_qa_id of the running call
    qpending,       \* team queue: the pairs the running call has still to handle
    qprev,          \* team queue: None | Some(id of the pair the running call handled last)
    qdone           \* team queue: the pairs whose classify-and-integrate step succeeded

envVars == <<files, links, envChanges>>
diskVars == <<diskCache, indexFile>>
provVars == <<file_sources, urls>>
localVars == <<now, mem, disc, changed, task, taskText, urlTasks, urlAny>>
histVars == <<applied, loaded, refreshErr, netReqs, discErr>>
writeVars == <<fs, wr>>
dlVars == <<dlsem, dlpc, dlphase>>
indexerVars == <<files, links, clock, fetchCache, diskCache, indexFile, file_sources, urls, lock,
                 pc, now, mem, disc, changed, task, taskText, urlTasks, urlAny, persisting,
                 applied, loaded, refreshErr, netReqs, discErr, stableRuns, tainted, envChanges,
                 crashes, built, ticks, busyCalls>>
gatherVars == <<gtask, gtick, gdisk, glate>>
loopVars == <<lpc, bpc, llock, stopEvent, spc, lres, lsleep>>
storeVars == <<sfile, sread, sindex>>
archiveVars == <<archive, aweek, alast, aresult>>
revalVars == <<rvCache, rvTask, rvDisk>>
fetchVars == <<wfCache, wfBrowser, wfLast>>
rtVars == <<rtTask, rtLoop, rtEvent, rtCall, rtMade>>
qVars == <<qstate, qpc, qmem, qpending, qprev, qdone>>
unitVars == <<revalVars, fetchVars, rtVars, qVars>>
newVars == <<gatherVars, loopVars, storeVars, archiveVars, unitVars>>
auxVars == <<writeVars, dlVars, newVars>>
notGatherVars == <<indexerVars, writeVars, dlVars, loopVars, storeVars, archiveVars, unitVars>>
notLoopVars == <<indexerVars, writeVars, dlVars, gatherVars, storeVars, archiveVars, unitVars>>
notStoreVars == <<indexerVars, writeVars, dlVars, gatherVars, loopVars, archiveVars, unitVars>>
notArchiveVars == <<indexerVars, writeVars, dlVars, gatherVars, loopVars, storeVars, unitVars>>
oldVars == <<indexerVars, writeVars, dlVars, gatherVars, loopVars, storeVars>>
notRevalVars == <<oldVars, archiveVars, fetchVars, rtVars, qVars>>
notFetchVars == <<oldVars, archiveVars, revalVars, rtVars, qVars>>
notRtVars == <<oldVars, archiveVars, revalVars, fetchVars, qVars>>
notQVars == <<oldVars, archiveVars, revalVars, fetchVars, rtVars>>
vars == <<indexerVars, auxVars>>

NoCache == CacheState(format_rfc3339(0), EmptyMap)

InTick == {"discover", "reconcile", "refresh", "refresh_url", "url_gather", "summarize", "gather"}

\* the cache file and the index file
CachePath == "cache.json"
IndexPath == "index.txt"

\* a write that goes to the destination itself
write_in_place(path) == path

\* path.with_suffix(path.suffix + ".tmp")
tmp_path(path) == IF path = CachePath THEN "cache.json.tmp" ELSE "index.txt.tmp"

Paths == {CachePath, IndexPath, tmp_path(CachePath), tmp_path(IndexPath)}

\* the urls of the links file in the download specification
DlUrls == {"u1", "u2", "u3"}

\* no _persist has been called
InitWriter ==
    /\ fs = [p \in Paths |-> None]
    /\ wr = [step |-> "idle", path |-> CachePath, cache |-> NoCache,
             prev |-> [p \in {CachePath, IndexPath} |-> None], crashes |-> 0]

\* UrlLinksProvider after __init__, no record yet
InitDownloads ==
    /\ dlsem = DownloadConcurrency
    /\ dlpc = [u \in DlUrls |-> "new"]
    /\ dlphase = "idle"

\* the pending records of the tick in the enrichment-task specification
GIds == {"p1", "p2", "p3"}

\* no tick has reached _summarize_pending
InitGather ==
    /\ gtask = [id \in GIds |-> "none"]
    /\ gtick = "idle"
    /\ gdisk = {}
    /\ glate = {}

\* KnowledgeBase after __init__: no runtime task, the stop event clear
InitLoop ==
    /\ lpc = "none"
    /\ bpc = "none"
    /\ llock = "free"
    /\ stopEvent = FALSE
    /\ spc = "init"
    /\ lres = "none"
    /\ lsleep = 0

\* no cache file, nothing read
InitStore ==
    /\ sfile = None
    /\ sread = None
    /\ sindex = None

\* the weeks of the raw archive's files, in the order of their names
Weeks == 1..MaxWeek

\* an empty raw archive
InitArchive ==
    /\ archive = [w \in Weeks |-> <<>>]
    /\ aweek = 1
    /\ alast = None
    /\ aresult = {}

\* the pending records of the tick in the re-validation specification
RvIds == {"p1", "p2"}

\* _summarize_pending has not created its tasks
InitReval ==
    /\ rvCache = [id \in RvIds |-> None]
    /\ rvTask = [id \in RvIds |-> [record |-> 0, state |-> "none"]]
    /\ rvDisk = [id \in RvIds |-> None]

\* the urls the fetcher is asked for
WfUrls == {"u1", "u2"}

\* an empty cache directory, no browser
InitFetcher ==
    /\ wfCache = [u \in WfUrls |-> None]
    /\ wfBrowser = FALSE
    /\ wfLast = None

\* the callers of start_runtime_refresh and stop_runtime_refresh
RtCallers == {"t1", "t2"}

\* FileSystemKnowledgeBase after __init__
InitRt ==
    /\ rtTask = None
    /\ rtLoop = <<>>
    /\ rtEvent = FALSE
    /\ rtCall = [c \in RtCallers |-> [pc |-> "idle", task |-> 0]]
    /\ rtMade = 0

\* no state.json, no call of process_pending_items
InitQueue ==
    /\ qstate = None
    /\ qpc = "idle"
    /\ qmem = None
    /\ qpending = [loaded |-> {}, left |-> {}]
    /\ qprev = None
    /\ qdone = {}

InitOthers ==
    /\ InitGather /\ InitLoop /\ InitStore /\ InitArchive
    /\ InitReval /\ InitFetcher /\ InitRt /\ InitQueue

InitIndexer ==
    /\ files = [id \in FileIds |-> IF id = "a" THEN Some([text |-> "h", mtime |-> 0]) ELSE None]
    /\ links = [readable |-> TRUE, lines |-> {"b"}]
    /\ clock = 0
    /\ fetchCache = [u \in UrlIds |-> ""]
    /\ diskCache = None
    /\ indexFile = None
    /\ file_sources = {}
    /\ urls = {}
    /\ lock = "free"
    /\ pc = [c \in Callers |-> "idle"]
    /\ now = [c \in Callers |-> 0]
    /\ mem = [c \in Callers |-> NoCache]
    /\ disc = [c \in Callers |-> EmptyMap]
    /\ changed = [c \in Callers |-> FALSE]
    /\ task = [c \in Callers |-> EmptyMap]
    /\ taskText = [c \in Callers |-> EmptyMap]
    /\ urlTasks = [c \in Callers |-> {}]
    /\ urlAny = [c \in Callers |-> FALSE]
    /\ persisting = "none"
    /\ applied = EmptyMap
    /\ loaded = EmptyMap
    /\ refreshErr = FALSE
    /\ netReqs = {}
    /\ discErr = FALSE
    /\ stableRuns = 0
    /\ tainted = FALSE
    /\ envChanges = 0
    /\ crashes = 0
    /\ built = FALSE
    /\ ticks = 0
    /\ busyCalls = {}

Init == InitIndexer /\ InitWriter /\ InitDownloads /\ InitOthers

\* ------------------------------------------------------------ environment
\* the steps that read the sources directory or the links file
ReadsSources(c) ==
    \/ pc[c] \in {"discover", "reconcile", "refresh"}
    \/ pc[c] = "gather" /\ \E id \in DOMAIN task[c] : task[c][id] = "wait"

\* A change of the sources commutes with every step that does not read them, so
\* it is taken only when no tick runs or right before a step that reads them.
SourceChanged ==
    /\ envChanges < MaxEnvChanges
    /\ persisting = "none"
    /\ \A c \in Callers : pc[c] \in InTick => ReadsSources(c)
    /\ envChanges' = envChanges + 1
    /\ stableRuns' = 0
    /\ tainted' = (lock # "free")

\* a file is written: new text, and a new mtime or the old one
WriteFile ==
    /\ SourceChanged
    /\ \E id \in FileIds, t \in FileTexts, m \in 0..MaxMtime :
          /\ IF files[id] = None THEN TRUE
             ELSE m \in {files[id][1].mtime, files[id][1].mtime + 1}
          /\ files[id] # Some([text |-> t, mtime |-> m])
          /\ files' = [files EXCEPT ![id] = Some([text |-> t, mtime |-> m])]
    /\ UNCHANGED <<auxVars, busyCalls, links, clock, fetchCache, diskVars, provVars, lock, pc, localVars,
                   persisting, histVars, crashes, built, ticks>>

DeleteFile ==
    /\ SourceChanged
    /\ \E id \in FileIds :
          /\ files[id] # None
          /\ files' = [files EXCEPT ![id] = None]
    /\ UNCHANGED <<auxVars, busyCalls, links, clock, fetchCache, diskVars, provVars, lock, pc, localVars,
                   persisting, histVars, crashes, built, ticks>>

\* the links file is edited, or becomes unreadable
WriteLinks ==
    /\ SourceChanged
    /\ \E r \in BOOLEAN, L \in SUBSET UrlIds :
          /\ links # [readable |-> r, lines |-> L]
          /\ links' = [readable |-> r, lines |-> L]
    /\ UNCHANGED <<auxVars, busyCalls, files, clock, fetchCache, diskVars, provVars, lock, pc, localVars,
                   persisting, histVars, crashes, built, ticks>>

\* the clock is read when a tick begins: it advances between ticks
AdvanceClock ==
    /\ clock < MaxClock
    /\ lock = "free"
    /\ clock' = clock + 1
    /\ UNCHANGED <<auxVars, busyCalls, envVars, fetchCache, diskVars, provVars, lock, pc, localVars,
                   persisting, histVars, stableRuns, tainted, crashes, built, ticks>>

\* the process dies and is started again: memory is lost, the disk stays
Crash ==
    /\ crashes < MaxCrashes
    /\ \E c \in Callers : pc[c] # "idle"
    /\ crashes' = crashes + 1
    /\ built' = FALSE
    /\ file_sources' = {}
    /\ urls' = {}
    /\ lock' = "free"
    /\ pc' = [c \in Callers |-> "idle"]
    /\ now' = [c \in Callers |-> 0]
    /\ mem' = [c \in Callers |-> NoCache]
    /\ disc' = [c \in Callers |-> EmptyMap]
    /\ changed' = [c \in Callers |-> FALSE]
    /\ task' = [c \in Callers |-> EmptyMap]
    /\ taskText' = [c \in Callers |-> EmptyMap]
    /\ urlTasks' = [c \in Callers |-> {}]
    /\ urlAny' = [c \in Callers |-> FALSE]
    /\ persisting' = "none"
    /\ loaded' = EmptyMap
    /\ refreshErr' = FALSE
    /\ netReqs' = {}
    /\ discErr' = FALSE
    /\ stableRuns' = 0
    /\ tainted' = FALSE
    /\ busyCalls' = {}
    /\ UNCHANGED <<auxVars, envVars, clock, fetchCache, diskVars, applied, ticks>>

\* ------------------------------------------------------------ tick: start
\* run_once / notify_changed is called and reaches `async with self._lock`;
\* build_index calls it once per process, the runtime loop again and again
Call(c) ==
    /\ pc[c] = "idle"
    /\ c = "build" => ~built
    /\ persisting = "none"
    /\ ticks < MaxTicks
    /\ ticks' = ticks + 1
    /\ built' = (built \/ c = "build")
    /\ pc' = [pc EXCEPT ![c] = "wait"]
    /\ busyCalls' = IF lock # "free" THEN busyCalls \cup {c} ELSE busyCalls \ {c}
    /\ UNCHANGED <<auxVars, envVars, clock, fetchCache, diskVars, provVars, lock, localVars,
                   persisting, histVars, stableRuns, tainted, crashes>>

\* a lock that never excludes
LockAlwaysFree(c) == TRUE

LockFree(c) == lock = "free"

\* the lock is acquired; _run_once_locked takes now and reads the cache file
Acquire(c) ==
    /\ pc[c] = "wait"
    /\ LockFree(c)
    /\ lock' = c
    /\ pc' = [pc EXCEPT ![c] = "discover"]
    /\ now' = [now EXCEPT ![c] = clock]
    /\ mem' = [mem EXCEPT ![c] = read_cache_file(diskCache, clock)]
    /\ loaded' = read_cache_file(diskCache, clock).sources
    /\ applied' = EmptyMap
    /\ refreshErr' = FALSE
    /\ netReqs' = {}
    /\ discErr' = FALSE
    /\ tainted' = FALSE
    /\ UNCHANGED <<auxVars, busyCalls, envVars, clock, fetchCache, diskVars, provVars, disc, changed, task,
                   taskText, urlTasks, urlAny, persisting, stableRuns, crashes, built, ticks>>

\* the locals of a tick that has ended
EndLocals(c) ==
    /\ now' = [now EXCEPT ![c] = 0]
    /\ mem' = [mem EXCEPT ![c] = NoCache]
    /\ disc' = [disc EXCEPT ![c] = EmptyMap]
    /\ changed' = [changed EXCEPT ![c] = FALSE]
    /\ task' = [task EXCEPT ![c] = EmptyMap]
    /\ taskText' = [taskText EXCEPT ![c] = EmptyMap]
    /\ urlTasks' = [urlTasks EXCEPT ![c] = {}]
    /\ urlAny' = [urlAny EXCEPT ![c] = FALSE]

\* run_once raises: the exception leaves `async with self._lock`
RaiseFromTick(c) ==
    /\ pc' = [pc EXCEPT ![c] = "idle"]
    /\ lock' = IF lock = c THEN "free" ELSE lock
    /\ stableRuns' = 0
    /\ tainted' = FALSE
    /\ applied' = EmptyMap
    /\ loaded' = EmptyMap
    /\ refreshErr' = FALSE
    /\ netReqs' = {}
    /\ discErr' = FALSE
    /\ busyCalls' = busyCalls \ {c}
    /\ EndLocals(c)

\* run_once returns
ReturnFromTick(c) ==
    /\ pc' = [pc EXCEPT ![c] = "idle"]
    /\ lock' = IF lock = c THEN "free" ELSE lock
    /\ stableRuns' = IF tainted THEN 0 ELSE 1
    /\ tainted' = FALSE
    /\ applied' = EmptyMap
    /\ loaded' = EmptyMap
    /\ refreshErr' = FALSE
    /\ netReqs' = {}
    /\ discErr' = FALSE
    /\ busyCalls' = busyCalls \ {c}
    /\ EndLocals(c)

\* --------------------------------------------------------------- discover
\* a discovery that answers from the provider's last listing
DiscoverFromLastListing == file_sources

FileFolderProvider_discover == {id \in FileIds : files[id] # None}

UrlLinksProvider_discover == IF links.readable THEN links.lines ELSE {}

\* _discover_sources: duplicate ids across the providers raise
Discover(c) ==
    /\ pc[c] = "discover"
    /\ file_sources' = FileFolderProvider_discover
    /\ urls' = UrlLinksProvider_discover
    /\ IF FileFolderProvider_discover \cap UrlLinksProvider_discover # {}
       THEN /\ RaiseFromTick(c)
            /\ UNCHANGED <<auxVars, envVars, clock, fetchCache, diskVars, persisting, crashes, built, ticks>>
       ELSE /\ disc' = [disc EXCEPT ![c] =
                          [id \in FileFolderProvider_discover \cup UrlLinksProvider_discover |->
                              IF id \in FileFolderProvider_discover THEN "file" ELSE "url"]]
            /\ pc' = [pc EXCEPT ![c] = "reconcile"]
            /\ discErr' = ~links.readable
            /\ UNCHANGED <<auxVars, busyCalls, envVars, clock, fetchCache, diskVars, lock, now, mem, changed, task,
                           taskText, urlTasks, urlAny, persisting, applied, loaded, refreshErr,
                           netReqs, stableRuns, tainted, crashes, built, ticks>>

\* -------------------------------------------------------------- reconcile
FileFolderProvider_init_record(id, n) ==
    IF id \notin file_sources THEN None
    ELSE IF files[id] = None THEN None
    ELSE IF files[id][1].text = "bin" THEN None
    ELSE Some(CacheRecord("file", hash_text(files[id][1].text), "", format_rfc3339(n), TRUE,
                          Some(FileMetadata(id, SizeOf(files[id][1].text), files[id][1].mtime)),
                          None))
\* an init_record that fills both metadata variants
UrlInitWithFileMetadata(id, n, text) ==
    IF id \notin urls THEN None
    ELSE IF text = "" THEN None
    ELSE Some(CacheRecord("url", hash_text(text), "", format_rfc3339(n), TRUE,
                          Some(FileMetadata(id, SizeOf(text), 0)),
                          Some(UrlMetadata(id, format_rfc3339(n), None, None, "success",
                                           format_rfc3339(n + RefreshInterval)))))

\* text: what fetch(url, force_refresh=True) returned, "" when the fetch failed
UrlLinksProvider_init_record(id, n, text) ==
    IF id \notin urls THEN None
    ELSE IF text = "" THEN None
    ELSE Some(CacheRecord("url", hash_text(text), "", format_rfc3339(n), TRUE, None,
                          Some(UrlMetadata(id, format_rfc3339(n), None, None, "success",
                                           format_rfc3339(n + RefreshInterval)))))

\* WebFetcher.fetch(url, force_refresh=True): a fetched text is written to the
\* disk cache, a failed fetch ("") writes nothing
FetchCacheAfter(cache, got) ==
    [u \in UrlIds |-> IF u \in DOMAIN got /\ got[u] \in UrlTexts THEN got[u] ELSE cache[u]]

\* a reconcile that drops no record
ReconcileKeepsAll(old, d) == DOMAIN old

\* the cache keys _reconcile keeps: those still discovered
ReconcileKept(old, d) == DOMAIN old \cap DOMAIN d

\* the discovered ids _reconcile calls init_record for
ReconcileNeedsInit(old, d) ==
    {id \in DOMAIN d : id \notin DOMAIN old \/ old[id].source_type # d[id]}

\* _reconcile.  out: per new url, what its WebFetcher did ("start_failed": the
\* browser engine did not start and init_record raised)
Reconcile(c) ==
    /\ pc[c] = "reconcile"
    /\ persisting # c
    /\ LET old == mem[c].sources
           d == disc[c]
           kept == ReconcileKept(old, d)
           need == ReconcileNeedsInit(old, d)
           needUrl == {id \in need : d[id] = "url" /\ id \in urls}
       IN \E out \in [needUrl -> UrlTexts \cup {"", "start_failed"}] :
            IF \E id \in needUrl : out[id] = "start_failed"
            THEN \E done \in SUBSET {id \in needUrl : out[id] \in UrlTexts} :
                    /\ fetchCache' = FetchCacheAfter(fetchCache, Restrict(out, done))
                    /\ RaiseFromTick(c)
                    /\ UNCHANGED <<auxVars, envVars, clock, diskVars, provVars, persisting, crashes, built, ticks>>
            ELSE LET init(id) == IF d[id] = "file"
                                 THEN FileFolderProvider_init_record(id, now[c])
                                 ELSE UrlLinksProvider_init_record(id, now[c], out[id])
                     ok == {id \in need : init(id) # None}
                     ch == (kept # DOMAIN old) \/ (ok # {})
                 IN /\ fetchCache' = FetchCacheAfter(fetchCache, out)
                    /\ netReqs' = netReqs \cup needUrl
                    /\ mem' = [mem EXCEPT ![c] =
                                 [@ EXCEPT !.generated_at = IF ch THEN format_rfc3339(now[c]) ELSE @,
                                           !.sources = [id \in (kept \cup ok) |->
                                                           IF id \in ok THEN init(id)[1] ELSE old[id]]]]
                    /\ changed' = [changed EXCEPT ![c] = ch]
                    /\ pc' = [pc EXCEPT ![c] = "refresh"]
                    /\ UNCHANGED <<auxVars, busyCalls, envVars, clock, diskVars, provVars, lock, now, disc, task,
                                   taskText, urlTasks, urlAny, persisting, applied, loaded,
                                   refreshErr, discErr, stableRuns, tainted, crashes, built, ticks>>

\* ---------------------------------------------------------------- persist
\* _persist, first write: generated_at is set and the cache file replaced
PersistCache(c, cache) ==
    /\ mem' = [mem EXCEPT ![c] = [cache EXCEPT !.generated_at = format_rfc3339(now[c])]]
    /\ diskCache' = Some(encode_cache([cache EXCEPT !.generated_at = format_rfc3339(now[c])]))
    /\ persisting' = c

\* _persist, second write: the index file is rebuilt from the cache
WriteIndex(c) ==
    /\ persisting = c
    /\ indexFile' = write_index_file(build_index_entries(mem[c]))
    /\ persisting' = "none"
    /\ UNCHANGED <<auxVars, busyCalls, envVars, clock, fetchCache, diskCache, provVars, lock, pc, localVars,
                   histVars, stableRuns, tainted, crashes, built, ticks>>

\* ---------------------------------------------------------------- refresh
\* a file refresh that skips the size and mtime comparison
FileRefreshIgnoresStat(id, rec) ==
    IF files[id] = None \/ files[id][1].text = "bin" THEN [rec |-> rec, changed |-> FALSE]
    ELSE [rec |-> [rec EXCEPT
                     !.file = Some(FileMetadata(id, SizeOf(files[id][1].text), files[id][1].mtime)),
                     !.content_hash =
                         IF hash_text(files[id][1].text) # rec.content_hash \/ rec.summary_pending
                         THEN hash_text(files[id][1].text) ELSE @,
                     !.summary_pending =
                         IF hash_text(files[id][1].text) # rec.content_hash \/ rec.summary_pending
                         THEN TRUE ELSE @],
          changed |-> TRUE]

\* a comparison that looks at the size only
FileUnchangedBySize(meta, size, mtime) == meta.size_bytes = size

\* the file is taken as unchanged: both size and mtime are those of the record
FileUnchanged(meta, size, mtime) == meta.size_bytes = size /\ meta.mtime_ns = mtime

\* a file that is marked pending whenever it is re-read
FileAlwaysNeedsSummary(rec, h) == TRUE

\* `content_hash != record.content_hash or record.summary_pending`
FileNeedsSummary(rec, h) == h # rec.content_hash \/ rec.summary_pending
\* a refresh that stores a summary of what it read and clears the flag
FileRefreshSummarizes(id, rec) ==
    IF files[id] = None \/ files[id][1].text = "bin" THEN [rec |-> rec, changed |-> FALSE]
    ELSE [rec |-> [rec EXCEPT
                     !.file = Some(FileMetadata(id, SizeOf(files[id][1].text), files[id][1].mtime)),
                     !.content_hash = hash_text(files[id][1].text),
                     !.summary_text = SummaryOf(files[id][1].text),
                     !.summary_pending = FALSE],
          changed |-> TRUE]

\* FileFolderProvider.refresh for one record: [rec, changed]
FileFolderProvider_refresh_one(id, rec) ==
    IF files[id] = None THEN [rec |-> rec, changed |-> FALSE]
    ELSE LET text == files[id][1].text
             size == SizeOf(text)
             mtime == files[id][1].mtime
             meta == IF rec.file # None THEN rec.file[1] ELSE FileMetadata(id, size, mtime)
         IN IF FileUnchanged(meta, size, mtime)
            THEN [rec |-> rec, changed |-> FALSE]
            ELSE IF text = "bin" THEN [rec |-> rec, changed |-> FALSE]
            ELSE [rec |-> [rec EXCEPT
                             !.file = Some(FileMetadata(id, size, mtime)),
                             !.content_hash =
                                 IF FileNeedsSummary(rec, hash_text(text))
                                 THEN hash_text(text) ELSE @,
                             !.summary_pending =
                                 IF FileNeedsSummary(rec, hash_text(text))
                                 THEN TRUE ELSE @],
                  changed |-> TRUE]

FileRefreshIds(sources) ==
    {id \in file_sources : id \in DOMAIN sources /\ sources[id].source_type = "file"}

\* the first provider's refresh
FileRefresh(c) ==
    /\ pc[c] = "refresh"
    /\ persisting # c
    /\ LET src == mem[c].sources
           ids == FileRefreshIds(src)
       IN /\ mem' = [mem EXCEPT ![c].sources =
                        [id \in DOMAIN src |->
                            IF id \in ids THEN FileFolderProvider_refresh_one(id, src[id]).rec
                            ELSE src[id]]]
          /\ changed' = [changed EXCEPT ![c] =
                            @ \/ \E id \in ids : FileFolderProvider_refresh_one(id, src[id]).changed]
    /\ pc' = [pc EXCEPT ![c] = "refresh_url"]
    /\ UNCHANGED <<auxVars, busyCalls, envVars, clock, fetchCache, diskVars, provVars, lock, now, disc, task,
                   taskText, urlTasks, urlAny, persisting, histVars, stableRuns, tainted,
                   crashes, built, ticks>>

\* an eligibility test that takes an unparsable next_check_at as not yet due
EligibleOnlyWhenParsed(rec, n) ==
    /\ rec.url # None
    /\ Parsable(rec.url[1].next_check_at)
    /\ parse_rfc3339(rec.url[1].next_check_at) <= n

\* _is_eligible: parse_rfc3339 raising makes the record eligible
_is_eligible(rec, n) ==
    /\ rec.url # None
    /\ (~Parsable(rec.url[1].next_check_at) \/ parse_rfc3339(rec.url[1].next_check_at) <= n)

UrlEligible(sources, n) ==
    {id \in DOMAIN sources :
        sources[id].source_type = "url" /\ sources[id].url # None /\ _is_eligible(sources[id], n)}

\* a failure that waits the refresh interval and forgets the validators
MarkFailureLikeSuccess(rec, status, n) ==
    [rec EXCEPT !.url = Some([rec.url[1] EXCEPT
                                !.fetch_status = status,
                                !.etag = None,
                                !.last_fetched_at = format_rfc3339(n),
                                !.next_check_at = format_rfc3339(n + RefreshInterval)])]

_mark_url_failure(rec, status, n) ==
    [rec EXCEPT !.url = Some([rec.url[1] EXCEPT
                                !.fetch_status = status,
                                !.next_check_at = format_rfc3339(n + RetryInterval)])]

\* a 304 that marks the record pending
NotModifiedMarksPending(rec, n) ==
    [rec EXCEPT !.url = Some([rec.url[1] EXCEPT
                                !.fetch_status = "not_modified",
                                !.last_fetched_at = format_rfc3339(n),
                                !.next_check_at = format_rfc3339(n + RefreshInterval)]),
                !.summary_pending = TRUE]

\* the 304 branch of _refresh_one
NotModified(rec, n) ==
    [rec EXCEPT !.url = Some([rec.url[1] EXCEPT
                                !.fetch_status = "not_modified",
                                !.last_fetched_at = format_rfc3339(n),
                                !.next_check_at = format_rfc3339(n + RefreshInterval)])]

\* should_summarize of _refresh_one
should_summarize(rec, h) ==
    h # rec.content_hash \/ rec.summary_pending \/ Strip(rec.summary_text) = ""

\* _refresh_one.  o: outcome of the conditional request; text: what the content
\* fetch returned after a 200 ("" when it failed)
_refresh_one(rec, n, o, text) ==
    CASE o = "timeout" -> _mark_url_failure(rec, "timeout", n)
      [] o = "error" -> _mark_url_failure(rec, "error", n)
      [] o = "304" -> NotModified(rec, n)
      [] OTHER ->
            IF text = "" THEN _mark_url_failure(rec, "error", n)
            ELSE [rec EXCEPT
                    !.url = Some([rec.url[1] EXCEPT
                                    !.etag = Some("v1"),
                                    !.last_modified = None,
                                    !.fetch_status = "success",
                                    !.last_fetched_at = format_rfc3339(n),
                                    !.next_check_at = format_rfc3339(n + RefreshInterval)]),
                    !.content_hash = hash_text(text),
                    !.summary_pending =
                        IF should_summarize(rec, hash_text(text)) THEN TRUE ELSE @]

\* a tick that goes on to summarize without persisting what it changed
FinishRefreshNoPersist(c, provider_changed, cache) ==
    /\ changed' = [changed EXCEPT ![c] = @ \/ provider_changed]
    /\ pc' = [pc EXCEPT ![c] = "summarize"]
    /\ mem' = [mem EXCEPT ![c] = cache]
    /\ UNCHANGED <<diskVars, persisting>>

\* a tick that persists only what the providers' refresh changed
FinishRefreshProviderOnly(c, provider_changed, cache) ==
    /\ changed' = [changed EXCEPT ![c] = @ \/ provider_changed]
    /\ pc' = [pc EXCEPT ![c] = "summarize"]
    /\ IF provider_changed
       THEN /\ PersistCache(c, cache)
            /\ UNCHANGED indexFile
       ELSE /\ mem' = [mem EXCEPT ![c] = cache]
            /\ UNCHANGED <<diskVars, persisting>>

\* the end of the refresh loop of _run_once_locked: `if changed: self._persist(...)`
FinishRefresh(c, provider_changed, cache) ==
    /\ changed' = [changed EXCEPT ![c] = @ \/ provider_changed]
    /\ pc' = [pc EXCEPT ![c] = "summarize"]
    /\ IF changed[c] \/ provider_changed
       THEN /\ PersistCache(c, cache)
            /\ UNCHANGED indexFile
       ELSE /\ mem' = [mem EXCEPT ![c] = cache]
            /\ UNCHANGED <<diskVars, persisting>>

\* a refresh failure that takes the tick past the creation of the enrichment tasks
RefreshFailedSkipsSummarize(c) ==
    /\ refreshErr' = TRUE
    /\ pc' = [pc EXCEPT ![c] = "gather"]
    /\ UNCHANGED <<mem, changed, diskVars, persisting>>

\* a provider's refresh raised: `except Exception: provider_changed = False`
RefreshFailed(c) ==
    /\ refreshErr' = TRUE
    /\ FinishRefresh(c, FALSE, mem[c])

\* UrlLinksProvider.refresh up to the creation of its tasks
UrlRefreshStart(c) ==
    /\ pc[c] = "refresh_url"
    /\ persisting # c
    /\ LET eligible == UrlEligible(mem[c].sources, now[c])
       IN IF eligible = {}
          THEN /\ FinishRefresh(c, FALSE, mem[c])
               /\ UNCHANGED <<urlTasks, refreshErr>>
          ELSE \E started \in BOOLEAN :
                  IF started
                  THEN /\ urlTasks' = [urlTasks EXCEPT ![c] = eligible]
                       /\ pc' = [pc EXCEPT ![c] = "url_gather"]
                       /\ UNCHANGED <<mem, changed, diskVars, persisting, refreshErr>>
                  ELSE /\ RefreshFailed(c)
                       /\ UNCHANGED urlTasks
    /\ UNCHANGED <<auxVars, busyCalls, envVars, clock, fetchCache, provVars, lock, now, disc, task, taskText,
                   urlAny, applied, loaded, netReqs, discErr, stableRuns, tainted, crashes, built,
                   ticks>>

\* one _refresh_one task runs to its end
UrlRefreshOne(c, id) ==
    /\ pc[c] = "url_gather"
    /\ persisting # c
    /\ id \in urlTasks[c]
    /\ id \in DOMAIN mem[c].sources
    /\ urlTasks' = [urlTasks EXCEPT ![c] = @ \ {id}]
    /\ \E o \in {"timeout", "error", "304", "200"} :
       \E text \in IF o = "200" THEN UrlTexts \cup {""} ELSE {""} :
          /\ fetchCache' = FetchCacheAfter(fetchCache, [u \in {id} |-> text])
          /\ mem' = [mem EXCEPT ![c].sources[id] = _refresh_one(@, now[c], o, text)]
          /\ urlAny' = [urlAny EXCEPT ![c] = TRUE]
          /\ netReqs' = netReqs \cup {id}
          /\ UNCHANGED <<changed, pc, diskVars, persisting, refreshErr>>
    /\ UNCHANGED <<auxVars, busyCalls, envVars, clock, provVars, lock, now, disc, task, taskText, applied,
                   loaded, discErr, stableRuns, tainted, crashes, built, ticks>>

\* gather has every result: refresh returns any(results)
UrlRefreshEnd(c) ==
    /\ pc[c] = "url_gather"
    /\ persisting # c
    /\ urlTasks[c] = {}
    /\ FinishRefresh(c, urlAny[c], mem[c])
    /\ UNCHANGED <<auxVars, busyCalls, envVars, clock, fetchCache, provVars, lock, now, disc, task, taskText,
                   urlTasks, urlAny, histVars, stableRuns, tainted, crashes, built, ticks>>

\* -------------------------------------------------------------- summarize
\* the records _summarize_pending creates a task for
PendingIds(sources, owner) ==
    {id \in DOMAIN sources : sources[id].summary_pending /\ id \in DOMAIN owner}

\* _summarize_pending: one task per pending record, then gather
SummarizeStart(c) ==
    /\ pc[c] = "summarize"
    /\ persisting # c
    /\ IF PendingIds(mem[c].sources, disc[c]) = {}
       THEN /\ ReturnFromTick(c)
            /\ UNCHANGED <<auxVars, envVars, clock, fetchCache, diskVars, provVars, persisting, crashes, built, ticks>>
       ELSE /\ task' = [task EXCEPT ![c] = [id \in PendingIds(mem[c].sources, disc[c]) |-> "wait"]]
            /\ pc' = [pc EXCEPT ![c] = "gather"]
            /\ UNCHANGED <<auxVars, busyCalls, envVars, clock, fetchCache, diskVars, provVars, lock, now, mem, disc,
                           changed, taskText, urlTasks, urlAny, persisting, histVars,
                           stableRuns, tainted, crashes, built, ticks>>

\* holders of _summary_semaphore
SummaryHolders == {<<c, id>> \in Callers \X SourceIds : id \in DOMAIN task[c] /\ task[c][id] = "llm"}

\* a semaphore that admits every task
SummarySemaphoreUnbounded(holders) == TRUE

\* `async with self._summary_semaphore` is entered at once when fewer than the
\* limit hold it
SummarySemaphoreFree(holders) == Cardinality(holders) < SummarizationConcurrency

FileFolderProvider_load_text(id) ==
    IF id \notin file_sources THEN None
    ELSE IF files[id] = None THEN None
    ELSE IF files[id][1].text = "bin" THEN None
    ELSE Some(files[id][1].text)

\* WebFetcher.get_cached_content
get_cached_content(url) == IF fetchCache[url] = "" THEN None ELSE Some(fetchCache[url])

UrlLinksProvider_load_text(id) == get_cached_content(id)

load_text(owner, id) ==
    IF owner[id] = "file" THEN FileFolderProvider_load_text(id) ELSE UrlLinksProvider_load_text(id)
\* a test that takes only an absent text as missing
NoTextUnlessAbsent(text) == text = None

\* `if not text or not text.strip(): return`
NoText(text) == text = None \/ Strip(text[1]) = ""

\* _summarize_one up to the enrichment call: the semaphore is taken and the
\* text loaded; a missing or blank text ends the task
TaskStart(c, id) ==
    /\ pc[c] = "gather"
    /\ persisting # c
    /\ id \in DOMAIN task[c]
    /\ task[c][id] = "wait"
    /\ SummarySemaphoreFree(SummaryHolders)
    /\ LET text == load_text(disc[c], id)
       IN IF NoText(text)
          THEN /\ task' = [task EXCEPT ![c][id] = "skipped"]
               /\ UNCHANGED taskText
          ELSE /\ task' = [task EXCEPT ![c][id] = "llm"]
               /\ taskText' = [taskText EXCEPT ![c] =
                                 [i \in DOMAIN @ \cup {id} |-> IF i = id THEN text[1] ELSE @[i]]]
    /\ UNCHANGED <<auxVars, busyCalls, envVars, clock, fetchCache, diskVars, provVars, lock, pc, now, mem, disc,
                   changed, urlTasks, urlAny, persisting, histVars, stableRuns, tainted, crashes, built, ticks>>

\* lines 190-196 of _summarize_one: the result is applied to the record
ApplySummary(rec, summary, n) ==
    [rec EXCEPT !.summary_text = summary,
                !.last_indexed_at = format_rfc3339(n),
                !.summary_pending = FALSE]

\* a failed enrichment call that clears the pending flag
FailedSummaryClearsPending(rec) == [rec EXCEPT !.summary_pending = FALSE]

\* a failed enrichment call: the record as _summarize_one leaves it
FailedSummary(rec) == rec

\* an applied result kept in memory only
PersistAppliedLater(c, cache) ==
    /\ mem' = [mem EXCEPT ![c] = cache]
    /\ UNCHANGED <<diskVars, persisting>>

\* what _summarize_one does with the cache once a result is applied
PersistApplied(c, cache) ==
    /\ PersistCache(c, cache)
    /\ UNCHANGED indexFile

\* the enrichment call of a task returns or raises
TaskFinish(c, id) ==
    /\ pc[c] = "gather"
    /\ persisting # c
    /\ id \in DOMAIN task[c]
    /\ task[c][id] = "llm"
    /\ \E res \in LLMTexts(taskText[c][id]) \cup {"raise"} :
          IF res = "raise"
          THEN /\ task' = [task EXCEPT ![c][id] = "failed"]
               /\ mem' = [mem EXCEPT ![c].sources =
                            [i \in DOMAIN @ |-> IF i = id THEN FailedSummary(@[i]) ELSE @[i]]]
               /\ UNCHANGED <<diskVars, persisting, applied>>
          ELSE IF id \notin DOMAIN mem[c].sources \/ ~mem[c].sources[id].summary_pending
          THEN /\ task' = [task EXCEPT ![c][id] = "discarded"]
               /\ UNCHANGED <<mem, diskVars, persisting, applied>>
          ELSE /\ task' = [task EXCEPT ![c][id] = "applied"]
               /\ applied' = [i \in DOMAIN applied \cup {id} |->
                                 IF i = id THEN Strip(res) ELSE applied[i]]
               /\ PersistApplied(c, [mem[c] EXCEPT
                                       !.sources[id] = ApplySummary(@, Strip(res), now[c])])
    /\ UNCHANGED <<auxVars, busyCalls, envVars, clock, fetchCache, provVars, lock, pc, now, disc, changed, taskText,
                   urlTasks, urlAny, loaded, refreshErr, netReqs, discErr, stableRuns, tainted,
                   crashes, built, ticks>>

\* gather returns: every task has ended
GatherEnd(c) ==
    /\ pc[c] = "gather"
    /\ persisting # c
    /\ \A id \in DOMAIN task[c] : task[c][id] \notin {"wait", "llm"}
    /\ ReturnFromTick(c)
    /\ UNCHANGED <<auxVars, envVars, clock, fetchCache, diskVars, provVars, persisting, crashes, built, ticks>>

\* ------------------------------------------------------------ specification
Next ==
    \/ WriteFile
    \/ DeleteFile
    \/ WriteLinks
    \/ AdvanceClock
    \/ Crash
    \/ \E c \in Callers : Call(c)
    \/ \E c \in Callers : Acquire(c)
    \/ \E c \in Callers : Discover(c)
    \/ \E c \in Callers : Reconcile(c)
    \/ \E c \in Callers : FileRefresh(c)
    \/ \E c \in Callers : UrlRefreshStart(c)
    \/ \E c \in Callers, id \in UrlIds : UrlRefreshOne(c, id)
    \/ \E c \in Callers : UrlRefreshEnd(c)
    \/ \E c \in Callers : WriteIndex(c)
    \/ \E c \in Callers : SummarizeStart(c)
    \/ \E c \in Callers, id \in SourceIds : TaskStart(c, id)
    \/ \E c \in Callers, id \in SourceIds : TaskFinish(c, id)
    \/ \E c \in Callers : GatherEnd(c)

Spec == Init /\ [][Next]_vars

\* ------------------------------------------------------------ atomic writes
\* The steps of _persist on the file system: atomic_write_json for the cache
\* file, then write_index_file / atomic_write_text for the index file.
\* The caches _persist is called with
WriteCaches ==
    {CacheState(format_rfc3339(0), src) :
        src \in {EmptyMap} \cup
                {[id \in {"a"} |->
                    CacheRecord("file", hash_text("h"), sm, format_rfc3339(0), sm = "",
                                Some(FileMetadata("a", SizeOf("h"), 0)), None)] :
                 sm \in {"", "s_h", "s_w"}}}

\* the complete content _persist writes to a path for a cache
Content(path, cache) ==
    IF path = CachePath THEN Some(encode_cache(cache))
    ELSE write_index_file(build_index_entries(cache))

\* Path.replace: the rename is atomic, the source name is gone afterwards
replace(f, src, dst) ==
    IF src = dst THEN f ELSE [f EXCEPT ![dst] = f[src], ![src] = None]

WriteInit ==
    /\ InitIndexer
    /\ InitDownloads
    /\ InitOthers
    /\ \E c0 \in WriteCaches, hasCache \in BOOLEAN, hasIndex \in BOOLEAN :
          /\ fs = [p \in Paths |->
                     IF p = CachePath /\ hasCache THEN Content(CachePath, c0)
                     ELSE IF p = IndexPath /\ hasIndex THEN Content(IndexPath, c0)
                     ELSE None]
          /\ wr = [step |-> "idle", path |-> CachePath, cache |-> c0,
                   prev |-> [p \in {CachePath, IndexPath} |->
                               IF p = CachePath /\ hasCache THEN Content(CachePath, c0)
                               ELSE IF p = IndexPath /\ hasIndex THEN Content(IndexPath, c0)
                               ELSE None],
                   crashes |-> 0]

\* _persist is called: generated_at is set, atomic_write_json is entered
PersistStart(cache, n) ==
    /\ wr.step = "idle"
    /\ wr' = [wr EXCEPT !.step = "start",
                        !.path = CachePath,
                        !.cache = [cache EXCEPT !.generated_at = format_rfc3339(n)],
                        !.prev = [p \in {CachePath, IndexPath} |-> fs[p]]]
    /\ UNCHANGED <<fs, indexerVars, dlVars, newVars>>

\* tmp_path.write_text opens the temporary file and starts to fill it
WriteTextBegin ==
    /\ wr.step = "start"
    /\ fs' = [fs EXCEPT ![tmp_path(wr.path)] = Partial]
    /\ wr' = [wr EXCEPT !.step = "writing"]
    /\ UNCHANGED <<indexerVars, dlVars, newVars>>

\* write_text returns: the temporary file is complete
WriteTextEnd ==
    /\ wr.step = "writing"
    /\ fs' = [fs EXCEPT ![tmp_path(wr.path)] = Content(wr.path, wr.cache)]
    /\ wr' = [wr EXCEPT !.step = "written"]
    /\ UNCHANGED <<indexerVars, dlVars, newVars>>

\* tmp_path.replace(path); after the cache file, _persist goes on to the index file
ReplaceTmp ==
    /\ wr.step = "written"
    /\ fs' = replace(fs, tmp_path(wr.path), wr.path)
    /\ wr' = IF wr.path = CachePath
             THEN [wr EXCEPT !.step = "start", !.path = IndexPath]
             ELSE [wr EXCEPT !.step = "idle"]
    /\ UNCHANGED <<indexerVars, dlVars, newVars>>

\* the process dies inside _persist: the files stay as they are
WriterCrash ==
    /\ wr.step # "idle"
    /\ wr.crashes < MaxCrashes
    /\ wr' = [wr EXCEPT !.step = "idle", !.crashes = @ + 1]
    /\ UNCHANGED <<fs, indexerVars, dlVars, newVars>>

WriteNext ==
    \/ \E cache \in WriteCaches, n \in 0..MaxClock : PersistStart(cache, n)
    \/ WriteTextBegin
    \/ WriteTextEnd
    \/ ReplaceTmp
    \/ WriterCrash

WriteSpec == WriteInit /\ [][WriteNext]_vars

\* ------------------------------------------------------------ url downloads
\* UrlLinksProvider as the indexer drives it: _reconcile awaits init_record for
\* one new url at a time, then refresh runs one _refresh_one task per eligible
\* record.  dlpc: "new" (listed, no record), "init_wait", "init_fetch",
\* "recorded", "cond_wait", "cond", "fetch_wait", "fetch", "done".

\* a semaphore that never blocks
DownloadSemaphoreUnbounded(v) == TRUE

\* asyncio.Semaphore.acquire returns at once when the value is positive
DownloadSemaphoreFree(v) == v > 0

\* the outbound operations in flight: fetches and conditional requests
InFlight == {u \in DlUrls : dlpc[u] \in {"init_fetch", "cond", "fetch"}}

DownloadInit == InitIndexer /\ InitWriter /\ InitDownloads /\ InitOthers

\* _reconcile calls init_record for a new url: _fetch_url_text reaches the semaphore
InitRecordCall(u) ==
    /\ dlphase = "idle"
    /\ dlpc[u] = "new"
    /\ dlpc' = [dlpc EXCEPT ![u] = "init_wait"]
    /\ dlphase' = "init_record"
    /\ UNCHANGED <<dlsem, indexerVars, writeVars, newVars>>

\* `async with self._download_semaphore` is entered and the operation sent
DownloadAcquire(u) ==
    /\ dlpc[u] \in {"init_wait", "cond_wait", "fetch_wait"}
    /\ DownloadSemaphoreFree(dlsem)
    /\ dlsem' = dlsem - 1
    /\ dlpc' = [dlpc EXCEPT ![u] = CASE @ = "init_wait" -> "init_fetch"
                                     [] @ = "cond_wait" -> "cond"
                                     [] OTHER -> "fetch"]
    /\ UNCHANGED <<dlphase, indexerVars, writeVars, newVars>>

\* the fetch of init_record ends: a record is returned, or None
InitFetchEnd(u) ==
    /\ dlpc[u] = "init_fetch"
    /\ dlsem' = dlsem + 1
    /\ \E got \in BOOLEAN : dlpc' = [dlpc EXCEPT ![u] = IF got THEN "recorded" ELSE "new"]
    /\ dlphase' = "idle"
    /\ UNCHANGED <<indexerVars, writeVars, newVars>>

\* refresh is called: one task per eligible url record
RefreshCall ==
    /\ dlphase = "idle"
    /\ \E eligible \in SUBSET {u \in DlUrls : dlpc[u] = "recorded"} :
          /\ eligible # {}
          /\ dlpc' = [u \in DlUrls |-> IF u \in eligible THEN "cond_wait" ELSE dlpc[u]]
    /\ dlphase' = "refresh"
    /\ UNCHANGED <<dlsem, indexerVars, writeVars, newVars>>

\* the conditional request ends: 200 goes on to the content fetch, everything
\* else ends the task
CondRequestEnd(u) ==
    /\ dlpc[u] = "cond"
    /\ dlsem' = dlsem + 1
    /\ \E ok \in BOOLEAN : dlpc' = [dlpc EXCEPT ![u] = IF ok THEN "fetch_wait" ELSE "done"]
    /\ UNCHANGED <<dlphase, indexerVars, writeVars, newVars>>

\* the content fetch of _refresh_one ends
FetchEnd(u) ==
    /\ dlpc[u] = "fetch"
    /\ dlsem' = dlsem + 1
    /\ dlpc' = [dlpc EXCEPT ![u] = "done"]
    /\ UNCHANGED <<dlphase, indexerVars, writeVars, newVars>>

\* gather has every result: refresh returns
RefreshReturn ==
    /\ dlphase = "refresh"
    /\ \A u \in DlUrls : dlpc[u] \in {"new", "recorded", "done"}
    /\ dlpc' = [u \in DlUrls |-> IF dlpc[u] = "done" THEN "recorded" ELSE dlpc[u]]
    /\ dlphase' = "idle"
    /\ UNCHANGED <<dlsem, indexerVars, writeVars, newVars>>

DownloadNext ==
    \/ \E u \in DlUrls : InitRecordCall(u)
    \/ \E u \in DlUrls : DownloadAcquire(u)
    \/ \E u \in DlUrls : InitFetchEnd(u)
    \/ RefreshCall
    \/ \E u \in DlUrls : CondRequestEnd(u)
    \/ \E u \in DlUrls : FetchEnd(u)
    \/ RefreshReturn

DownloadSpec == DownloadInit /\ [][DownloadNext]_vars

\* -------------------------------------------------------------- observers
\* the records of the cache file, as read_cache_file decodes them
DiskSources == IF diskCache = None THEN EmptyMap ELSE decode_cache(diskCache[1]).sources

\* the source ids the index file has an entry for
IndexIds ==
    IF indexFile = None THEN {}
    ELSE {indexFile[1][i].identifier[2] : i \in 1..Len(indexFile[1])}

\* the callers inside `async with self._lock`
Running == {c \in Callers : pc[c] \in InTick}

\* a step in which run_once raises
TickRaises(c) ==
    pc[c] \in {"discover", "reconcile"} /\ pc'[c] = "idle" /\ crashes' = crashes

\* a step in which run_once returns
TickReturns(c) ==
    pc[c] \in {"summarize", "gather"} /\ pc'[c] = "idle" /\ crashes' = crashes

\* a step of a run that follows a completed run with no source change since that
\* run began
SecondRunStep == stableRuns = 1 /\ stableRuns' = 1

C2_PersistedPendingOrSummarized ==
    \A id \in DOMAIN DiskSources :
        DiskSources[id].summary_pending \/ DiskSources[id].summary_text # ""

\* C3: a summary _summarize_one has applied is in the cache file, non-pending,
\* from the step that applied it on, whatever the tick does next and across a
\* crash
C3_AppliedIsOnDisk ==
    \A id \in DOMAIN applied :
        /\ id \in DOMAIN DiskSources
        /\ ~DiskSources[id].summary_pending
        /\ DiskSources[id].summary_text = applied[id]

C3_Witness ==
    /\ DOMAIN applied # {}
    /\ crashes > 0
    /\ \A c \in Callers : pc[c] = "idle"

\* C4: while the enrichment tasks of a tick exist, every record they were
\* created for is in the cache file with the content_hash it has in memory, and
\* pending there if pending in memory; a record loaded pending and still
\* discovered has a task; and the task of a url record loaded pending, not
\* eligible for refresh and still listed got its text from the fetcher's cache
\* while the tick sent no request for that url
C4_PendingPersistedBeforeEnrichment ==
    \A c \in Callers : pc[c] = "gather" =>
        /\ \A id \in DOMAIN task[c] :
              /\ id \in DOMAIN mem[c].sources
              /\ id \in DOMAIN DiskSources
              /\ DiskSources[id].content_hash = mem[c].sources[id].content_hash
              /\ mem[c].sources[id].summary_pending => DiskSources[id].summary_pending
        /\ \A id \in DOMAIN loaded :
              (/\ loaded[id].summary_pending
               /\ id \in DOMAIN disc[c]
               /\ disc[c][id] = loaded[id].source_type)
              => id \in DOMAIN task[c]
        /\ \A id \in DOMAIN loaded \cap DOMAIN task[c] :
              (/\ loaded[id].source_type = "url"
               /\ loaded[id].summary_pending
               /\ ~_is_eligible(loaded[id], now[c])
               /\ disc[c][id] = "url"
               /\ task[c][id] = "llm")
              => id \notin netReqs /\ taskText[c][id] = fetchCache[id]

C4_Witness ==
    /\ crashes > 0
    /\ \E c \in Callers, id \in UrlIds :
          /\ pc[c] = "gather"
          /\ id \in DOMAIN loaded \cap DOMAIN task[c]
          /\ loaded[id].source_type = "url"
          /\ loaded[id].summary_pending
          /\ ~_is_eligible(loaded[id], now[c])
          /\ disc[c][id] = "url"
          /\ task[c][id] = "llm"

\* C5: the step in which an enrichment task ends without a result (its text
\* could not be loaded or the call raised) changes neither the cache in memory
\* nor the cache file, the index file or the fetcher's cache, and leaves the
\* record pending in memory and in the cache file
C5_FailedEnrichmentLeavesRecord ==
    [][\A c \in Callers, id \in SourceIds :
          (/\ id \in DOMAIN task[c]
           /\ task[c][id] \in {"wait", "llm"}
           /\ id \in DOMAIN task'[c]
           /\ task'[c][id] \in {"failed", "skipped"})
          => /\ mem'[c] = mem[c]
             /\ mem'[c].sources[id].summary_pending
             /\ diskCache' = diskCache
             /\ indexFile' = indexFile
             /\ fetchCache' = fetchCache
             /\ id \in DOMAIN DiskSources'
             /\ DiskSources'[id] = mem'[c].sources[id]]_vars

C5_Witness ==
    \E c \in Callers, id \in SourceIds :
        /\ id \in DOMAIN task[c]
        /\ task[c][id] = "failed"
        /\ mem[c].sources[id].summary_pending

\* C6 as stated: a run that follows a completed run, with no source change
\* since that run began, changes neither the cache file nor the index file
C6_SecondRunChangesNothing ==
    [][SecondRunStep => (diskCache' = diskCache /\ indexFile' = indexFile)]_vars

\* the cache the tick of caller c loaded has no pending record and no url record
\* eligible for refresh, and has a url record for every url of the links file
SettledAtLoad(c) ==
    /\ lock = c
    /\ \A id \in DOMAIN loaded :
          /\ ~loaded[id].summary_pending
          /\ loaded[id].url # None => ~_is_eligible(loaded[id], now[c])
    /\ \A id \in UrlLinksProvider_discover :
          id \in DOMAIN loaded /\ loaded[id].source_type = "url"

\* C6 amended: a run that follows a completed run, with no source change since
\* that run began, changes neither the cache file nor the index file when the
\* cache it loads has no pending record, no url record eligible for refresh and
\* a url record for every listed url
C6_SettledSecondRunChangesNothing ==
    [][\A c \in Callers :
          (SecondRunStep /\ SettledAtLoad(c))
          => (diskCache' = diskCache /\ indexFile' = indexFile)]_vars

C6_Witness ==
    \E c \in Callers :
        /\ stableRuns = 1
        /\ SettledAtLoad(c)
        /\ pc[c] = "summarize"
        /\ now[c] > 0
        /\ \E id \in DOMAIN loaded : loaded[id].source_type = "url"
        /\ \E id \in DOMAIN loaded : loaded[id].source_type = "file"

\* C7: when a tick returns, no id of the cache it loaded that its discovery
\* did not return is in the cache file or in the index file
C7_RemovedAfterTick ==
    [][\A c \in Callers : TickReturns(c) =>
          \A id \in DOMAIN loaded \ DOMAIN disc[c] :
              id \notin DOMAIN DiskSources' /\ id \notin IndexIds']_vars

C7_Witness ==
    \E c \in Callers :
        /\ pc[c] = "summarize"
        /\ persisting = "none"
        /\ \E id \in DOMAIN loaded \ DOMAIN disc[c] : loaded[id].summary_text # ""

\* C8: after the reconcile step of a tick the keys of its cache are ids its
\* discovery returned, and so are the keys of every cache file it writes
C8_RecordsOnlyForDiscovered ==
    \A c \in Callers :
        /\ pc[c] \in {"refresh", "refresh_url", "url_gather", "summarize", "gather"}
              => DOMAIN mem[c].sources \subseteq DOMAIN disc[c]
        /\ persisting = c => DOMAIN DiskSources \subseteq DOMAIN disc[c]

C8_Witness ==
    \E c \in Callers :
        /\ persisting = c
        /\ DOMAIN loaded \ DOMAIN disc[c] # {}
        /\ DOMAIN disc[c] \ DOMAIN loaded # {}

\* C9: a tick whose discovery returns an id twice raises and leaves the cache
\* file and the index file as they were, and a tick raises for no other reason
C9_OnlyDuplicateIdsFailTick ==
    [][\A c \in Callers :
          /\ (pc[c] = "discover" /\ pc'[c] # "discover" /\ crashes' = crashes
              /\ FileFolderProvider_discover \cap UrlLinksProvider_discover # {})
             => (TickRaises(c) /\ diskCache' = diskCache /\ indexFile' = indexFile)
          /\ TickRaises(c)
             => (pc[c] = "discover"
                 /\ FileFolderProvider_discover \cap UrlLinksProvider_discover # {})]_vars

\* C10: once a provider's refresh has raised, the tick is still running, it
\* persists only what reconcile and the other providers changed, and its
\* enrichment tasks cover every pending record that has an owner
C10_RefreshFailureKeepsTick ==
    refreshErr =>
        \E c \in Callers :
            /\ lock = c
            /\ pc[c] \in {"summarize", "gather"}
            /\ (pc[c] = "summarize" /\ persisting = c) => changed[c]
            /\ pc[c] = "gather" => PendingIds(mem[c].sources, disc[c]) \subseteq DOMAIN task[c]

C10_Witness ==
    /\ refreshErr
    /\ \E c \in Callers, id \in SourceIds :
          pc[c] = "gather" /\ id \in DOMAIN task[c] /\ task[c][id] = "llm"

\* C11: while a tick whose discovery could not read the links file runs, the
\* tick has not been aborted and every url record of the cache it loaded is
\* still in the cache file
C11_DiscoveryFailureKeepsRecords ==
    discErr =>
        /\ \E c \in Callers : lock = c /\ pc[c] \in InTick
        /\ \A id \in DOMAIN loaded :
              loaded[id].source_type = "url" => id \in DOMAIN DiskSources

\* the entries of the index file, none when the file is missing
IndexEntries == IF indexFile = None THEN <<>> ELSE indexFile[1]

\* C12: once a tick has completed in this process, whenever no persist is in
\* progress the index file holds build_index_entries of the cache file
C12_IndexIsProjection ==
    (stableRuns = 1 /\ persisting = "none")
        => IndexEntries = build_index_entries(read_cache_file(diskCache, 0))

\* C13: at every instant of _persist, and after a crash at any of its steps,
\* the cache file and the index file each hold the complete content they had
\* when _persist was called or the complete content _persist writes; neither
\* is ever partially written
C13_AtomicWrite ==
    \A p \in {CachePath, IndexPath} :
        /\ fs[p] # Partial
        /\ fs[p] = wr.prev[p] \/ fs[p] = Content(p, wr.cache)

C13_Witness ==
    /\ wr.crashes > 0
    /\ wr.step = "idle"
    /\ fs[tmp_path(IndexPath)] = Partial
    /\ fs[CachePath] = Content(CachePath, wr.cache)
    /\ fs[CachePath] # wr.prev[CachePath]
    /\ fs[IndexPath] = wr.prev[IndexPath]
    /\ fs[IndexPath] # Content(IndexPath, wr.cache)

\* the url record of id was loaded by the tick of c and that tick's refresh has
\* had the answer to its conditional request
Refreshed(c, id) ==
    /\ lock = c
    /\ id \in netReqs
    /\ id \in DOMAIN loaded
    /\ loaded[id].source_type = "url"
    /\ loaded[id].url # None
    /\ id \in DOMAIN mem[c].sources
    /\ mem[c].sources[id].url # None

\* the enrichment client has been called for id in the tick of c
EnrichmentCalled(c, id) ==
    id \in DOMAIN task[c] /\ task[c][id] \in {"llm", "applied", "discarded", "failed"}

\* C14 as stated: a url record whose conditional request returned 304 in this
\* tick has next_check_at = now + refresh interval and the content_hash it was
\* loaded with, after the refresh also the summary_text and summary_pending it
\* was loaded with, and no enrichment call is made for it in this tick
C14_NotModifiedNeverEnriches ==
    \A c \in Callers, id \in UrlIds :
        (Refreshed(c, id) /\ mem[c].sources[id].url[1].fetch_status = "not_modified")
        => /\ mem[c].sources[id].url[1].next_check_at = format_rfc3339(now[c] + RefreshInterval)
           /\ mem[c].sources[id].content_hash = loaded[id].content_hash
           /\ pc[c] \in {"url_gather", "summarize"}
                 => /\ mem[c].sources[id].summary_text = loaded[id].summary_text
                    /\ mem[c].sources[id].summary_pending = loaded[id].summary_pending
           /\ ~EnrichmentCalled(c, id)

\* C14 amended: a url record that was not pending when the tick loaded it and
\* whose conditional request returned 304 keeps, to the end of the tick, its
\* content_hash, summary_text and summary_pending, has fetch_status
\* not_modified and next_check_at = now + refresh interval, and the tick
\* creates no enrichment task for it
C14_NotModifiedSettledNeverEnriches ==
    \A c \in Callers, id \in UrlIds :
        (/\ Refreshed(c, id)
         /\ mem[c].sources[id].url[1].fetch_status = "not_modified"
         /\ ~loaded[id].summary_pending)
        => /\ mem[c].sources[id].url[1].next_check_at = format_rfc3339(now[c] + RefreshInterval)
           /\ mem[c].sources[id].content_hash = loaded[id].content_hash
           /\ mem[c].sources[id].summary_text = loaded[id].summary_text
           /\ ~mem[c].sources[id].summary_pending
           /\ id \notin DOMAIN task[c]

C14_Witness ==
    \E c \in Callers, id \in UrlIds :
        /\ Refreshed(c, id)
        /\ mem[c].sources[id].url[1].fetch_status = "not_modified"
        /\ ~loaded[id].summary_pending
        /\ loaded[id].summary_text # ""
        /\ pc[c] = "gather"

\* C15: a url record that was not pending when the tick loaded it and whose
\* refresh got a 200 and fetched content with the stored content_hash is not
\* pending after the refresh
C15_SameContentNotPending ==
    \A c \in Callers, id \in UrlIds :
        (/\ Refreshed(c, id)
         /\ mem[c].sources[id].url[1].fetch_status = "success"
         /\ mem[c].sources[id].content_hash = loaded[id].content_hash
         /\ ~loaded[id].summary_pending)
        => ~mem[c].sources[id].summary_pending

\* C16: the refresh step of a file record that is not pending, whose file can
\* be read, has another size or mtime than the record and hashes to the stored
\* content_hash, changes the stored size and mtime and nothing else of the
\* record, and reports a change; and a tick creates an enrichment task for no
\* record that is not pending
C16_TouchedFileNotPending ==
    [][\A c \in Callers :
          /\ (pc[c] = "refresh" /\ pc'[c] = "refresh_url")
             => \A id \in FileRefreshIds(mem[c].sources) :
                   (/\ ~mem[c].sources[id].summary_pending
                    /\ mem[c].sources[id].file # None
                    /\ files[id] # None
                    /\ files[id][1].text # "bin"
                    /\ \/ mem[c].sources[id].file[1].size_bytes # SizeOf(files[id][1].text)
                       \/ mem[c].sources[id].file[1].mtime_ns # files[id][1].mtime
                    /\ hash_text(files[id][1].text) = mem[c].sources[id].content_hash)
                   => /\ mem'[c].sources[id] =
                            [mem[c].sources[id] EXCEPT
                                !.file = Some(FileMetadata(id, SizeOf(files[id][1].text),
                                                           files[id][1].mtime))]
                      /\ changed'[c]
          /\ (pc[c] = "summarize" /\ pc'[c] = "gather")
             => \A id \in DOMAIN mem[c].sources :
                   ~mem[c].sources[id].summary_pending => id \notin DOMAIN task'[c]]_vars

C16_Witness ==
    \E c \in Callers, id \in FileIds :
        /\ pc[c] = "refresh_url"
        /\ id \in DOMAIN loaded
        /\ id \in DOMAIN mem[c].sources
        /\ ~loaded[id].summary_pending
        /\ loaded[id].file # None
        /\ mem[c].sources[id].file # None
        /\ mem[c].sources[id].file # loaded[id].file
        /\ mem[c].sources[id].content_hash = loaded[id].content_hash
        /\ ~mem[c].sources[id].summary_pending
        /\ changed[c]

\* the size and mtime of the file of id are those of the record
FileStatSame(id, rec) ==
    /\ files[id] # None
    /\ rec.file # None
    /\ rec.file[1].size_bytes = SizeOf(files[id][1].text)
    /\ rec.file[1].mtime_ns = files[id][1].mtime

\* the file of id can be stat'ed and read as text
FileReadable(id) == files[id] # None /\ files[id][1].text # "bin"

\* C17 as stated: the refresh step leaves a file record as it is when size and
\* mtime equal the record's, and in every other case stores the file's size
\* and mtime; it reports a change iff some file is in the other case
C17_UnchangedIffStatEqual ==
    [][\A c \in Callers :
          (pc[c] = "refresh" /\ pc'[c] = "refresh_url")
          => /\ \A id \in FileRefreshIds(mem[c].sources) :
                   IF FileStatSame(id, mem[c].sources[id])
                   THEN mem'[c].sources[id] = mem[c].sources[id]
                   ELSE /\ files[id] # None
                        /\ mem'[c].sources[id].file =
                              Some(FileMetadata(id, SizeOf(files[id][1].text), files[id][1].mtime))
             /\ changed'[c] = (changed[c] \/ \E id \in FileRefreshIds(mem[c].sources) :
                                               ~FileStatSame(id, mem[c].sources[id]))]_vars

\* C17 amended: the refresh step leaves a file record as it is when size and
\* mtime equal the record's, whatever the content, and when the file cannot be
\* stat'ed or read as text; in every other case it stores the file's size and
\* mtime; it reports a change iff some file is in that last case
C17_UnchangedIffStatEqualOrUnreadable ==
    [][\A c \in Callers :
          (pc[c] = "refresh" /\ pc'[c] = "refresh_url")
          => /\ \A id \in FileRefreshIds(mem[c].sources) :
                   IF FileStatSame(id, mem[c].sources[id]) \/ ~FileReadable(id)
                   THEN mem'[c].sources[id] = mem[c].sources[id]
                   ELSE mem'[c].sources[id].file =
                           Some(FileMetadata(id, SizeOf(files[id][1].text), files[id][1].mtime))
             /\ changed'[c] = (changed[c] \/ \E id \in FileRefreshIds(mem[c].sources) :
                                               /\ ~FileStatSame(id, mem[c].sources[id])
                                               /\ FileReadable(id))]_vars

C17_Witness ==
    \E c \in Callers, id \in FileIds :
        /\ pc[c] = "refresh_url"
        /\ id \in DOMAIN loaded
        /\ id \in DOMAIN mem[c].sources
        /\ mem[c].sources[id] = loaded[id]
        /\ FileStatSame(id, loaded[id])
        /\ hash_text(files[id][1].text) # loaded[id].content_hash
        /\ ~changed[c]

\* C18: after a refresh that failed (timeout, network error, a status other
\* than 200 and 304, or a 200 whose content fetch gave nothing) the url record
\* has fetch_status timeout or error, next_check_at = now + the runtime-tick
\* interval, and every other field as the tick loaded it
C18_FailureOnlyReschedules ==
    \A c \in Callers, id \in UrlIds :
        (/\ Refreshed(c, id)
         /\ mem[c].sources[id].url[1].fetch_status \in {"timeout", "error"}
         /\ pc[c] \in {"url_gather", "summarize"})
        => /\ mem[c].sources[id].url[1].next_check_at = format_rfc3339(now[c] + RetryInterval)
           /\ mem[c].sources[id].content_hash = loaded[id].content_hash
           /\ mem[c].sources[id].summary_text = loaded[id].summary_text
           /\ mem[c].sources[id].summary_pending = loaded[id].summary_pending
           /\ mem[c].sources[id].last_indexed_at = loaded[id].last_indexed_at
           /\ mem[c].sources[id].url[1].etag = loaded[id].url[1].etag
           /\ mem[c].sources[id].url[1].last_modified = loaded[id].url[1].last_modified
           /\ mem[c].sources[id].url[1].last_fetched_at = loaded[id].url[1].last_fetched_at
           /\ mem[c].sources[id].url[1].url = loaded[id].url[1].url
           /\ mem[c].sources[id].file = loaded[id].file

C18_Witness ==
    \E c \in Callers, id \in UrlIds :
        /\ Refreshed(c, id)
        /\ mem[c].sources[id].url[1].fetch_status = "timeout"
        /\ loaded[id].url[1].fetch_status = "success"
        /\ pc[c] = "summarize"
        /\ now[c] > 0

\* C19: the number of outbound url operations in flight (content fetches of
\* init_record and _refresh_one, conditional requests) never exceeds the
\* download concurrency limit, and the semaphore counts them
C19_DownloadsBounded ==
    /\ Cardinality(InFlight) <= DownloadConcurrency
    /\ dlsem = DownloadConcurrency - Cardinality(InFlight)

C19_Witness ==
    /\ Cardinality(InFlight) = DownloadConcurrency
    /\ \E u, v \in DlUrls : dlpc[u] = "cond" /\ dlpc[v] = "fetch"
    /\ \E u \in DlUrls : dlpc[u] \in {"cond_wait", "fetch_wait"}

\* C20: at most summarization_concurrency enrichment calls are in flight,
\* however many records are pending; and while the enrichment tasks of a tick
\* exist no url refresh task is unfinished, so no task that wants the summary
\* semaphore ever meets a holder of the download semaphore
C20_EnrichmentBounded ==
    /\ Cardinality(SummaryHolders) <= SummarizationConcurrency
    /\ \A c, d \in Callers : pc[c] = "gather" => urlTasks[d] = {}

C20_Witness ==
    \E c \in Callers, i, j \in SourceIds :
        /\ pc[c] = "gather"
        /\ i \in DOMAIN task[c]
        /\ j \in DOMAIN task[c]
        /\ task[c][i] = "llm"
        /\ task[c][j] = "wait"
        /\ Cardinality(SummaryHolders) = SummarizationConcurrency

\* C22: while an enrichment call is in flight (a task is inside invoke_llm)
\* nobody holds the run lock
C22_NoLockDuringEnrichment ==
    \A c \in Callers, id \in SourceIds :
        (id \in DOMAIN task[c] /\ task[c][id] = "llm") => lock = "free"

\* C30: in every reconcile step, each id init_record is called for either gets
\* a record with summary_pending = true and summary_text = "" or, when its
\* content cannot be captured, gets no record (so the next tick calls
\* init_record for it again) while the step goes on to refresh with every
\* other readable new file recorded
C30_InitRecordPendingOrAbsent ==
    [][\A c \in Callers :
         (pc[c] = "reconcile" /\ pc'[c] # "reconcile" /\ crashes' = crashes) =>
             /\ pc'[c] = "refresh"
             /\ \A id \in ReconcileNeedsInit(mem[c].sources, disc[c]) :
                   /\ id \in DOMAIN mem'[c].sources =>
                         /\ mem'[c].sources[id].summary_pending
                         /\ mem'[c].sources[id].summary_text = ""
                         /\ mem'[c].sources[id].source_type = disc[c][id]
                   /\ (disc[c][id] = "file" /\ ~FileReadable(id)) =>
                         id \notin DOMAIN mem'[c].sources
                   /\ (disc[c][id] = "file" /\ FileReadable(id)) =>
                         id \in DOMAIN mem'[c].sources
                   /\ (disc[c][id] = "url" /\ fetchCache'[id] = "") =>
                         id \notin DOMAIN mem'[c].sources]_vars

\* the size and mtime a stat of the file gives now
FileStatNow(id) == Some(FileMetadata(id, SizeOf(files[id][1].text), files[id][1].mtime))

GHolders == {id \in GIds : gtask[id] = "llm"}

\* the tasks that have not finished
GRunning == {id \in GIds : gtask[id] \in {"wait", "llm"}}

\* _summarize_pending: a task is created for every pending record that has an
\* owner; with no task the call returns at once
SummarizePending ==
    /\ gtick = "idle"
    /\ \E pend \in SUBSET GIds :
          /\ gtask' = [id \in GIds |-> IF id \in pend THEN "wait" ELSE "none"]
          /\ gtick' = IF pend = {} THEN "returned" ELSE "gather"
    /\ UNCHANGED <<gdisk, glate, notGatherVars>>

\* _summarize_one enters the semaphore, loads the text and calls invoke_llm
GTaskStart(id) ==
    /\ gtask[id] = "wait"
    /\ SummarySemaphoreFree(GHolders)
    /\ gtask' = [gtask EXCEPT ![id] = "llm"]
    /\ UNCHANGED <<gtick, gdisk, glate, notGatherVars>>

\* _summarize_one leaves the semaphore and runs to its end with no further
\* await: the text was blank ("skipped"), load_text or invoke_llm raised and
\* the exception was caught ("failed"), the result was applied and persisted
\* ("applied"), or it was applied and _persist raised ("raised") before or
\* after the cache file was replaced
GTaskFinish(id) ==
    /\ gtask[id] = "llm"
    /\ \E out \in {"skipped", "failed", "applied", "raised"}, wrote \in BOOLEAN :
          /\ out = "applied" => wrote
          /\ out \in {"skipped", "failed"} => ~wrote
          /\ gtask' = [gtask EXCEPT ![id] = out]
          /\ gdisk' = IF wrote THEN gdisk \cup {id} ELSE gdisk
          /\ glate' = IF out \in {"applied", "raised"} /\ gtick # "gather"
                      THEN glate \cup {id} ELSE glate
    /\ UNCHANGED <<gtick, notGatherVars>>

\* asyncio.gather(*tasks) hands the first exception of a task to its awaiter
\* at once
GatherRaisesNow == \E id \in GIds : gtask[id] = "raised"

\* every task is done and none raised: gather, _summarize_pending and
\* run_once return
GatherReturn ==
    /\ gtick = "gather"
    /\ GRunning = {}
    /\ \A id \in GIds : gtask[id] # "raised"
    /\ gtick' = "returned"
    /\ UNCHANGED <<gtask, gdisk, glate, notGatherVars>>

\* a task raised: the exception leaves gather, _summarize_pending and
\* run_once, and the lock is released
GatherRaise ==
    /\ gtick = "gather"
    /\ GatherRaisesNow
    /\ gtick' = "raised"
    /\ UNCHANGED <<gtask, gdisk, glate, notGatherVars>>

GatherNext ==
    \/ SummarizePending
    \/ \E id \in GIds : GTaskStart(id)
    \/ \E id \in GIds : GTaskFinish(id)
    \/ GatherReturn
    \/ GatherRaise

GatherSpec == Init /\ [][GatherNext]_vars

\* C21: once the tick that created the enrichment tasks has ended (run_once
\* has returned or raised and the lock is released) every one of its tasks has
\* finished, and none has applied or persisted a result after the tick ended
C21_NoTaskOutlivesTick ==
    gtick \in {"returned", "raised"} => (GRunning = {} /\ glate = {})

\* ------------------------------------------------------------ runtime loop
\* _run_bot creates the build_index task and the _runtime_loop task on one
\* indexer, and at shutdown awaits stop_runtime_refresh and then cancels the
\* build_index task.  A tick is run_once: wait for the lock, run, _persist.

\* _run_bot: create_task(kb.build_index()), kb.start_runtime_refresh()
RunBotStart ==
    /\ spc = "init"
    /\ lpc = "none"
    /\ stopEvent' = FALSE
    /\ bpc' = "lock_wait"
    /\ lpc' = "while"
    /\ spc' = "running"
    /\ UNCHANGED <<llock, lres, lsleep, notLoopVars>>

\* `while not self._stop_event.is_set()`: the loop ends, or calls run_once
LoopTest ==
    /\ lpc = "while"
    /\ lpc' = IF stopEvent THEN "exited" ELSE "lock_wait"
    /\ UNCHANGED <<bpc, llock, stopEvent, spc, lres, lsleep, notLoopVars>>

\* run_once of the loop enters `async with self._lock`
LoopAcquire ==
    /\ lpc = "lock_wait"
    /\ llock = "free"
    /\ llock' = "loop"
    /\ lpc' = "tick"
    /\ UNCHANGED <<bpc, stopEvent, spc, lres, lsleep, notLoopVars>>

\* a loop that ends when a tick raises
TickErrorEndsLoop == "exited"

\* `except Exception`: the error is logged and the loop goes on to its sleep
AfterTickRaised == "sleep"

\* the loop's tick ends: sleep_seconds is what is left of the tick interval
LoopTickEnds(res) ==
    /\ llock' = "free"
    /\ lres' = res
    /\ lpc' = IF res = "raised" THEN AfterTickRaised ELSE "sleep"
    /\ \E left \in 0..RetryInterval : lsleep' = left

\* the loop's tick runs: it raises, returns with nothing to persist, or enters _persist
LoopTick ==
    /\ lpc = "tick"
    /\ \/ LoopTickEnds("raised") /\ UNCHANGED <<bpc, stopEvent, spc, notLoopVars>>
       \/ LoopTickEnds("ok") /\ UNCHANGED <<bpc, stopEvent, spc, notLoopVars>>
       \/ lpc' = "persist" /\ UNCHANGED <<bpc, llock, stopEvent, spc, lres, lsleep, notLoopVars>>

\* _persist of the loop's tick has written both files and the tick returns, or
\* a write raised
LoopPersistEnd ==
    /\ lpc = "persist"
    /\ \E res \in {"ok", "raised"} : LoopTickEnds(res)
    /\ UNCHANGED <<bpc, stopEvent, spc, notLoopVars>>

\* wait_for(self._stop_event.wait(), timeout=sleep_seconds): time passes
LoopTimePasses ==
    /\ lpc = "sleep"
    /\ lsleep > 0
    /\ lsleep' = lsleep - 1
    /\ UNCHANGED <<lpc, bpc, llock, stopEvent, spc, lres, notLoopVars>>

\* the timeout expires: asyncio.TimeoutError, continue
LoopTimeout ==
    /\ lpc = "sleep"
    /\ lsleep = 0
    /\ lpc' = "while"
    /\ UNCHANGED <<bpc, llock, stopEvent, spc, lres, lsleep, notLoopVars>>

\* self._stop_event.wait() returns as soon as the event is set
EventWakes == stopEvent

\* the wait returns before the timeout because the event is set
LoopWake ==
    /\ lpc = "sleep"
    /\ EventWakes
    /\ lpc' = "while"
    /\ lsleep' = 0
    /\ UNCHANGED <<bpc, llock, stopEvent, spc, lres, notLoopVars>>

\* run_once of build_index enters `async with self._lock`
BuildAcquire ==
    /\ bpc = "lock_wait"
    /\ llock = "free"
    /\ llock' = "build"
    /\ bpc' = "tick"
    /\ UNCHANGED <<lpc, stopEvent, spc, lres, lsleep, notLoopVars>>

\* the build_index tick runs: it ends (returning or raising), or enters _persist
BuildTick ==
    /\ bpc = "tick"
    /\ \/ bpc' = "done" /\ llock' = "free"
       \/ bpc' = "persist" /\ llock' = llock
    /\ UNCHANGED <<lpc, stopEvent, spc, lres, lsleep, notLoopVars>>

BuildPersistEnd ==
    /\ bpc = "persist"
    /\ bpc' = "done"
    /\ llock' = "free"
    /\ UNCHANGED <<lpc, stopEvent, spc, lres, lsleep, notLoopVars>>

\* stop_runtime_refresh is called: the event is set, the loop task awaited
StopCall ==
    /\ spc = "running"
    /\ lpc # "none"
    /\ stopEvent' = TRUE
    /\ spc' = "stopping"
    /\ UNCHANGED <<lpc, bpc, llock, lres, lsleep, notLoopVars>>

\* a stop that does not await the loop task
StopReturnsAtOnce == TRUE

\* `await self._runtime_task` returns when the loop task is done
LoopTaskDone == lpc = "exited"

\* stop_runtime_refresh returns
StopReturn ==
    /\ spc = "stopping"
    /\ LoopTaskDone
    /\ spc' = "stopped"
    /\ UNCHANGED <<lpc, bpc, llock, stopEvent, lres, lsleep, notLoopVars>>

\* _run_bot: the build_index task, if not done, is cancelled and awaited; the
\* CancelledError leaves its `async with self._lock`
RunBotFinish ==
    /\ spc = "stopped"
    /\ spc' = "finished"
    /\ bpc' = IF bpc = "done" THEN "done" ELSE "cancelled"
    /\ llock' = IF llock = "build" THEN "free" ELSE llock
    /\ UNCHANGED <<lpc, stopEvent, lres, lsleep, notLoopVars>>

LoopStep ==
    \/ LoopTest
    \/ LoopAcquire
    \/ LoopTick
    \/ LoopPersistEnd
    \/ LoopTimePasses
    \/ LoopTimeout
    \/ LoopWake

BuildStep ==
    \/ BuildAcquire
    \/ BuildTick
    \/ BuildPersistEnd

LoopNext ==
    \/ RunBotStart
    \/ LoopStep
    \/ BuildStep
    \/ StopCall
    \/ StopReturn
    \/ RunBotFinish

LoopSpec == Init /\ [][LoopNext]_vars

\* the event loop runs every task that can run, a tick's awaits return, and
\* time passes
LoopLiveSpec ==
    /\ LoopSpec
    /\ WF_vars(LoopStep)
    /\ WF_vars(BuildStep)
    /\ WF_vars(StopReturn)

\* the loop's run_once call is in flight: waiting for the lock, running, or in _persist
LoopInTick == lpc \in {"lock_wait", "tick", "persist"}

\* C23: once the stop event is set, a run_once call of the loop that is in
\* flight goes on step by step to its end (its _persist included) and keeps
\* the lock until then; the loop makes no further run_once call; a sleeping
\* loop can wake at once, whatever is left of its timeout; stop_runtime_refresh
\* has returned only when the loop task has exited; and the loop task does
\* exit and stop_runtime_refresh does return
C23_StopNeverInterruptsTick ==
    /\ [][stopEvent =>
            /\ lpc = "lock_wait" => lpc' \in {"lock_wait", "tick"}
            /\ lpc = "tick" => lpc' \in {"tick", "persist", "sleep"}
            /\ lpc = "persist" => lpc' \in {"persist", "sleep"}
            /\ (llock = "loop" /\ llock' # "loop") => lpc' = "sleep"
            /\ lpc \in {"while", "sleep", "exited"} => ~LoopInTick']_vars
    /\ []((stopEvent /\ lpc = "sleep") => ENABLED LoopWake)
    /\ [](spc \in {"stopped", "finished"} => lpc = "exited")
    /\ (stopEvent ~> lpc = "exited")
    /\ (spc = "stopping" ~> spc \in {"stopped", "finished"})

\* stop_runtime_refresh has been called and awaits the loop task while the
\* loop's tick is inside _persist
C23_Witness == spc = "stopping" /\ stopEvent /\ lpc = "persist"

\* C24: whenever a tick of the loop ends, returning or raising, the loop goes
\* to its sleep; the loop task has exited only if a stop was requested; and
\* after a tick that raised the loop calls run_once again unless a stop is
\* requested meanwhile
C24_LoopSurvivesTickFailure ==
    /\ [][(llock = "loop" /\ llock' # "loop") => lpc' = "sleep"]_vars
    /\ [](lpc = "exited" => stopEvent)
    /\ ((lpc = "sleep" /\ lres = "raised") ~> (lpc = "lock_wait" \/ stopEvent))

\* the loop has called run_once again after a tick that raised, with no stop requested
C24_Witness == lres = "raised" /\ lpc \in {"lock_wait", "tick"} /\ ~stopEvent

\* ------------------------------------------------------------- cache store
\* read_cache_file and build_index_entries / write_index_file applied to the
\* cache files a directory can hold: none, an undecodable one, and payloads of
\* this and of another schema version with every mix of records

StoreSummaries == {"", "ws", "s_h"}

\* a record as the providers and _summarize_one leave it
StoreRecord(ty, id, summary) ==
    CacheRecord(ty, hash_text("h"), summary, format_rfc3339(0), summary = "",
                IF ty = "file" THEN Some(FileMetadata(id, SizeOf("h"), 0)) ELSE None,
                IF ty = "url"
                THEN Some(UrlMetadata(id, format_rfc3339(0), None, None, "success",
                                      format_rfc3339(RefreshInterval)))
                ELSE None)

\* per id: no record, or a record of either type with one of the summaries
StoreChoices == {None} \cup {Some(<<ty, t>>) : ty \in {"file", "url"}, t \in StoreSummaries}

StoreCaches ==
    {CacheState(format_rfc3339(0),
                [id \in {x \in SourceIds : ch[x] # None} |->
                    StoreRecord(ch[id][1][1], id, ch[id][1][2])]) :
        ch \in [SourceIds -> StoreChoices]}

\* a schema version other than the compiled-in one
OtherSchemaVersion == SchemaVersion + 1

StoreFiles ==
    {None, Partial}
        \cup {Some(encode_cache(c)) : c \in StoreCaches}
        \cup {Some([encode_cache(c) EXCEPT !.schema_version = OtherSchemaVersion]) :
                 c \in StoreCaches}

StoreInit ==
    /\ InitIndexer
    /\ InitWriter
    /\ InitDownloads
    /\ InitGather
    /\ InitLoop
    /\ InitArchive
    /\ InitReval
    /\ InitFetcher
    /\ InitRt
    /\ InitQueue
    /\ sfile \in StoreFiles
    /\ sread = None
    /\ sindex = None

\* _run_once_locked: cache = read_cache_file(self._cache_path), and a cache of
\* another schema version is replaced by an empty one
LoadCache ==
    /\ sread = None
    /\ \E n \in 0..MaxClock :
          sread' = Some(IF read_cache_file(sfile, n).schema_version # SchemaVersion
                        THEN CacheState(format_rfc3339(n), EmptyMap)
                        ELSE read_cache_file(sfile, n))
    /\ UNCHANGED <<sfile, sindex, notStoreVars>>

\* _persist: the index file is written from the entries of the cache
RenderIndex ==
    /\ sread # None
    /\ sindex = None
    /\ sindex' = write_index_file(build_index_entries(sread[1]))
    /\ UNCHANGED <<sfile, sread, notStoreVars>>

StoreNext ==
    \/ LoadCache
    \/ RenderIndex

StoreSpec == StoreInit /\ [][StoreNext]_vars

\* what _discover_sources returns when every id is present
StoreDiscovered == [id \in SourceIds |-> IF id \in UrlIds THEN "url" ELSE "file"]

\* the cache file is there, decodes, and has the compiled-in schema version
StoreFileValid ==
    sfile # None /\ sfile # Partial /\ sfile[1].schema_version = SchemaVersion

TypeRank(ty) == CHOOSE k \in 1..Len(source_type_order) : source_type_order[k] = ty

IdRank(id) == CHOOSE k \in 1..Len(IdOrder) : IdOrder[k] = id

Fractions == {<<>>, <<0>>, <<2>>}

QaIds == {<<w, sec>> \o f : w \in Weeks, sec \in 0..1, f \in Fractions}

\* a QA pair of the archive: id (its timestamp is the id in another spelling),
\* conversation_id ("" for none) and the number of its message_ids
QAPairs == [id : QaIds, conversation_id : {"", "c1"}, messages : 1..2]

\* a > b on strings
StrGreater(a, b) ==
    \E k \in 1..Len(a) :
        /\ \A j \in 1..(k - 1) : j <= Len(b) /\ a[j] = b[j]
        /\ k > Len(b) \/ a[k] > b[k]

\* strptime with "%Y%m%d_%H%M%S.%f", then with "%Y%m%d_%H%M%S"
_parse_qa_id_datetime(qa_id) ==
    [week |-> qa_id[1], second |-> qa_id[2],
     microsecond |-> IF Len(qa_id) = 3 THEN qa_id[3] ELSE 0]

\* the name of the file of the ISO week of dt; names sort as the weeks do
get_week_filename(dt) == dt.week

RECURSIVE PairsOfFiles(_, _)
\* the pairs of the files ws (weeks, ascending), in file order
PairsOfFiles(ws, w) ==
    IF w > MaxWeek THEN <<>>
    ELSE (IF w \in ws THEN archive[w] ELSE <<>>) \o PairsOfFiles(ws, w + 1)

\* RawArchive.append: the pair goes to the end of the file of the present
\* week; its timestamp is the creation time of a message that exists already.
\* What an earlier load_since returned is forgotten.
ArchiveAppend ==
    /\ Len(PairsOfFiles(Weeks, 1)) < MaxPairs
    /\ \E p \in QAPairs :
          /\ p.id[1] <= aweek
          /\ archive' = [archive EXCEPT ![aweek] = Append(@, p)]
    /\ alast' = None
    /\ aresult' = {}
    /\ UNCHANGED <<aweek, notArchiveVars>>

\* utc_now() reaches the next ISO week
NextWeek ==
    /\ aweek < MaxWeek
    /\ aweek' = aweek + 1
    /\ UNCHANGED <<archive, alast, aresult, notArchiveVars>>

\* deduplicate_by_conversation, as the set of the pairs it returns: the pairs
\* without conversation_id, and per conversation the first pair with the most
\* message_ids
deduplicate_by_conversation(pairs) ==
    {pairs[i] : i \in {k \in 1..Len(pairs) : pairs[k].conversation_id = ""}}
        \cup {pairs[i] : i \in {k \in 1..Len(pairs) :
                 /\ pairs[k].conversation_id # ""
                 /\ \A j \in 1..Len(pairs) :
                       pairs[j].conversation_id = pairs[k].conversation_id =>
                           \/ pairs[j].messages < pairs[k].messages
                           \/ pairs[j].messages = pairs[k].messages /\ j >= k}}

\* a filter that lets the pair of the cursor itself through
NotOlderThan(id, last) == id = last \/ StrGreater(id, last)

\* `p.id > last_processed_qa_id`
NewerThan(id, last) == StrGreater(id, last)

\* load_since: last is None for an empty last_processed_qa_id
load_since(last) ==
    IF last = None THEN deduplicate_by_conversation(PairsOfFiles(Weeks, 1))
    ELSE LET start_week_file == get_week_filename(_parse_qa_id_datetime(last[1]))
             relevant_files == {w \in Weeks : w >= start_week_file}
             all_pairs == PairsOfFiles(relevant_files, 1)
             keep(p) == NewerThan(p.id, last[1])
         IN deduplicate_by_conversation(SelectSeq(all_pairs, keep))

\* process_pending_items calls load_since with the stored or configured cursor
LoadSince ==
    /\ \E last \in {None} \cup {Some(id) : id \in QaIds} :
          /\ alast' = Some(last)
          /\ aresult' = load_since(last)
    /\ UNCHANGED <<archive, aweek, notArchiveVars>>

ArchiveNext ==
    \/ ArchiveAppend
    \/ NextWeek
    \/ LoadSince

ArchiveSpec == Init /\ [][ArchiveNext]_vars

\* every pair of the archive
Archived == {PairsOfFiles(Weeks, 1)[i] : i \in 1..Len(PairsOfFiles(Weeks, 1))}

\* the pairs a cursor leaves pending: all of them for an empty cursor
PendingAfter(last) ==
    IF last = None THEN Archived ELSE {p \in Archived : StrGreater(p.id, last[1])}

\* C29: load_since returns only archived pairs whose id is greater than the
\* cursor (all pairs for an empty cursor), never the pair of the cursor or an
\* older one; every such pair is returned or, if it has a conversation_id, is
\* represented by a returned pair of the same conversation with at least as
\* many message_ids; and no two returned pairs share a conversation_id
C29_LoadSinceStrictlyNewer ==
    alast # None =>
        /\ aresult \subseteq PendingAfter(alast[1])
        /\ \A p \in PendingAfter(alast[1]) :
              \/ p \in aresult
              \/ /\ p.conversation_id # ""
                 /\ \E q \in aresult : /\ q.conversation_id = p.conversation_id
                                        /\ q.messages >= p.messages
        /\ \A p, q \in aresult :
              (p.conversation_id # "" /\ p.conversation_id = q.conversation_id) => p = q

\* a cursor with a microsecond suffix whose own pair is archived, and a newer
\* pair that load_since returned
C29_Witness ==
    /\ alast # None
    /\ alast[1] # None
    /\ Len(alast[1][1]) = 3
    /\ \E p \in Archived : p.id = alast[1][1]
    /\ aresult # {}

\* ------------------------------------------------------ fair periodic ticks
\* The runtime loop alone calls run_once, again and again with no bound, while
\* a file is written once and the clock advances; no crash.

\* _runtime_loop calls run_once once more
LoopCall ==
    /\ pc["loop"] = "idle"
    /\ persisting = "none"
    /\ pc' = [pc EXCEPT !["loop"] = "wait"]
    /\ UNCHANGED <<auxVars, busyCalls, envVars, clock, fetchCache, diskVars, provVars, lock,
                   localVars, persisting, histVars, stableRuns, tainted, crashes, built, ticks>>

\* a step of the loop's tick
LiveTick ==
    \/ LoopCall
    \/ Acquire("loop")
    \/ Discover("loop")
    \/ Reconcile("loop")
    \/ FileRefresh("loop")
    \/ UrlRefreshStart("loop")
    \/ \E id \in UrlIds : UrlRefreshOne("loop", id)
    \/ UrlRefreshEnd("loop")
    \/ WriteIndex("loop")
    \/ SummarizeStart("loop")
    \/ \E id \in SourceIds : TaskStart("loop", id)
    \/ \E id \in SourceIds : TaskFinish("loop", id)
    \/ GatherEnd("loop")

\* an enrichment call returns and its result is applied
EnrichmentSucceeds ==
    \E id \in SourceIds :
        /\ TaskFinish("loop", id)
        /\ task'["loop"][id] = "applied"

\* _reconcile returns: no init_record raised
ReconcileReturns ==
    /\ Reconcile("loop")
    /\ pc'["loop"] = "refresh"

LiveNext ==
    \/ WriteFile
    \/ AdvanceClock
    \/ LiveTick

\* ticks are fair: the loop's task always gets its next step, a browser that
\* is started again and again eventually starts, and an enrichment call that
\* is made again and again eventually succeeds
LiveSpec ==
    /\ Init
    /\ [][LiveNext]_vars
    /\ WF_vars(LiveTick)
    /\ SF_vars(ReconcileReturns)
    /\ SF_vars(EnrichmentSucceeds)

\* a.txt, indexed with the summary of "h", has been rewritten to "w" with a new mtime
FileRewritten ==
    /\ files["a"] = Some([text |-> "w", mtime |-> 1])
    /\ "a" \in DOMAIN DiskSources
    /\ DiskSources["a"].source_type = "file"
    /\ DiskSources["a"].content_hash = hash_text("h")
    /\ ~DiskSources["a"].summary_pending
    /\ DiskSources["a"].summary_text = SummaryOf("h")
    /\ \E i \in 1..Len(IndexEntries) :
          IndexEntries[i].identifier[2] = "a" /\ IndexEntries[i].summary = SummaryOf("h")

\* the cache file has the new hash and the record pending
NewHashPending ==
    /\ "a" \in DOMAIN DiskSources
    /\ DiskSources["a"].content_hash = hash_text("w")
    /\ DiskSources["a"].summary_pending

\* the record is not pending and the index block of a.txt is the summary of "w"
Reindexed ==
    /\ "a" \in DOMAIN DiskSources
    /\ DiskSources["a"].content_hash = hash_text("w")
    /\ ~DiskSources["a"].summary_pending
    /\ \E i \in 1..Len(IndexEntries) :
          IndexEntries[i].identifier[2] = "a" /\ IndexEntries[i].summary = SummaryOf("w")

\* C26: once an indexed file has been rewritten with another content and
\* mtime, a later tick stores the new content hash with the record pending,
\* and eventually the record is not pending and its index block is the summary
\* of the new content
C26_ReindexedEventually ==
    /\ (FileRewritten ~> NewHashPending)
    /\ (FileRewritten ~> Reindexed)

\* ------------------------------------------------------- metadata variants
\* source_type names the one metadata variant a record carries
MetadataMatchesType(rec) ==
    /\ rec.source_type = "file" => (rec.file # None /\ rec.url = None)
    /\ rec.source_type = "url" => (rec.url # None /\ rec.file = None)

\* C37: in every cache the engine builds from an empty cache, in memory and in
\* the cache file, a file record has file metadata and no url metadata and a
\* url record has url metadata and no file metadata
C37_MetadataMatchesType ==
    /\ \A c \in Callers : \A id \in DOMAIN mem[c].sources :
          MetadataMatchesType(mem[c].sources[id])
    /\ \A id \in DOMAIN DiskSources : MetadataMatchesType(DiskSources[id])

\* the cache file holds a file record and a url record, both refreshed by a
\* later tick than the one that made them and both enriched
C37_Witness ==
    /\ "a" \in DOMAIN DiskSources
    /\ "b" \in DOMAIN DiskSources
    /\ DiskSources["a"].source_type = "file"
    /\ DiskSources["b"].source_type = "url"
    /\ ~DiskSources["a"].summary_pending
    /\ ~DiskSources["b"].summary_pending
    /\ DiskSources["a"].file[1].mtime_ns = 1
    /\ DiskSources["b"].url[1].fetch_status = "not_modified"

\* ------------------------------------------------ refresh never summarizes
\* the steps of the refresh loop of _run_once_locked
RefreshPhase == {"refresh", "refresh_url", "url_gather"}

\* the enrichment call of id returns in this step and its result is applied
EnrichmentApplied(id) ==
    \E c \in Callers :
        /\ id \in DOMAIN task[c]
        /\ task[c][id] = "llm"
        /\ task'[c][id] = "applied"

\* C36: a step of a provider's refresh leaves summary_text and last_indexed_at
\* of every record as they were and never clears summary_pending; in memory
\* and in the cache file, a record's summary_pending goes from true to false
\* only in the step that applies a successful enrichment to it
C36_RefreshNeverSummarizes ==
    [][ /\ \A c \in Callers : \A id \in DOMAIN mem[c].sources \cap DOMAIN mem'[c].sources :
              /\ pc[c] \in RefreshPhase =>
                    /\ mem'[c].sources[id].summary_text = mem[c].sources[id].summary_text
                    /\ mem'[c].sources[id].last_indexed_at = mem[c].sources[id].last_indexed_at
                    /\ mem[c].sources[id].summary_pending => mem'[c].sources[id].summary_pending
              /\ (/\ pc[c] \in InTick
                  /\ pc[c] # "reconcile"
                  /\ mem[c].sources[id].summary_pending
                  /\ ~mem'[c].sources[id].summary_pending) => EnrichmentApplied(id)
        /\ \A id \in DOMAIN DiskSources \cap DOMAIN DiskSources' :
              (DiskSources[id].summary_pending /\ ~DiskSources'[id].summary_pending)
                  => EnrichmentApplied(id)
      ]_vars

\* the refresh of a tick has re-read a.txt, which was loaded with a summary and
\* not pending: new hash, pending, the summary and last_indexed_at as loaded
C36_Witness ==
    \E c \in Callers :
        /\ pc[c] = "refresh_url"
        /\ "a" \in DOMAIN loaded
        /\ ~loaded["a"].summary_pending
        /\ loaded["a"].summary_text = "s_h"
        /\ "a" \in DOMAIN mem[c].sources
        /\ mem[c].sources["a"].content_hash # loaded["a"].content_hash
        /\ mem[c].sources["a"].summary_pending
        /\ mem[c].sources["a"].summary_text = "s_h"
        /\ mem[c].sources["a"].last_indexed_at = loaded["a"].last_indexed_at

\* ------------------------------------------- hash of the summarized text
\* C35: the step that applies an enrichment result leaves the record not
\* pending, with the summary, with last_indexed_at = now and with content_hash
\* the hash of the text load_text gave the task, also when the source changed
\* between the refresh and load_text
C35_HashOfSummarizedText ==
    [][ \A c \in Callers : \A id \in DOMAIN task[c] \cap DOMAIN task'[c] :
            (task[c][id] = "llm" /\ task'[c][id] = "applied") =>
                /\ ~mem'[c].sources[id].summary_pending
                /\ mem'[c].sources[id].summary_text = applied'[id]
                /\ mem'[c].sources[id].last_indexed_at = format_rfc3339(now[c])
                /\ mem'[c].sources[id].content_hash = hash_text(taskText[c][id])
      ]_vars

\* ------------------------------------------------- records without a text
Ended == {"skipped", "failed", "applied", "discarded"}

\* what holds while the tasks of a tick run
SkipLeavesPending(c) ==
    /\ \A id \in DOMAIN mem[c].sources :
          (mem[c].sources[id].summary_pending /\ id \in DOMAIN disc[c]) => id \in DOMAIN task[c]
    /\ \A id \in DOMAIN task[c] :
          /\ task[c][id] = "llm" => Strip(taskText[c][id]) # ""
          /\ task[c][id] = "skipped" =>
                /\ id \notin DOMAIN taskText[c]
                /\ id \notin DOMAIN applied
                /\ mem[c].sources[id].summary_pending
                /\ id \in DOMAIN DiskSources
                /\ DiskSources[id].summary_pending
          /\ task[c][id] = "applied" =>
                /\ id \in DOMAIN DiskSources
                /\ ~DiskSources[id].summary_pending
                /\ DiskSources[id].summary_text = applied[id]

\* C33: a tick that reaches the summarize step has a task for every pending
\* record with an owner; a task whose load_text gave no text or a blank text
\* ends without an enrichment call and leaves its record pending in memory and
\* in the cache file; the results of the other tasks are applied and persisted
\* all the same, and run_once returns only when every task has ended
C33_BlankTextSkipsOneRecord ==
    /\ [](\A c \in Callers : pc[c] = "gather" => SkipLeavesPending(c))
    /\ [][ \A c \in Callers :
             (pc[c] = "gather" /\ pc'[c] = "idle" /\ crashes' = crashes) =>
                 \A id \in DOMAIN task[c] : task[c][id] \in Ended ]_vars

\* in one tick the task of a.txt was skipped and the result for b applied
C33_Witness ==
    \E c \in Callers :
        /\ pc[c] = "gather"
        /\ DOMAIN task[c] = {"a", "b"}
        /\ task[c]["a"] = "skipped"
        /\ task[c]["b"] = "applied"
        /\ mem[c].sources["a"].summary_pending
        /\ ~DiskSources["b"].summary_pending
        /\ DiskSources["b"].summary_text = "s_h"

\* ------------------------------------------------- ticks on a found cache
\* The runtime loop ticks on a cache file left by an earlier run of the
\* program (or edited since), with the sources as they are now.

\* file records an earlier run can have left: pending, or enriched
FoundFileRecords(id) ==
    {CacheRecord("file", hash_text("h"), s, format_rfc3339(0), s = "",
                 Some(FileMetadata(id, SizeOf("h"), 0)), None) : s \in {"", "s_h"}}

\* next_check_at as found: due, not yet due, not a timestamp
FoundNextChecks == {format_rfc3339(0), format_rfc3339(MaxClock), <<"bad", 0>>}

\* url records an earlier run can have left
FoundUrlRecords(id) ==
    {CacheRecord("url", hash_text("h"), s, format_rfc3339(0), s = "", None,
                 Some(UrlMetadata(id, format_rfc3339(0), None, None, "success", nx))) :
        s \in {"", "s_h"}, nx \in FoundNextChecks}

\* the caches found: a.txt was a file, b a link or a file
FoundCaches ==
    {CacheState(format_rfc3339(0), src) :
        src \in UNION {[D -> UNION {FoundFileRecords(id) \cup FoundUrlRecords(id) : id \in D}] :
                          D \in SUBSET SourceIds} }

FoundCacheValid(cache) ==
    \A id \in DOMAIN cache.sources :
        /\ cache.sources[id].source_type = "file" => cache.sources[id].file[1].rel_path = id
        /\ cache.sources[id].source_type = "url" =>
              (id \in UrlIds /\ cache.sources[id].url[1].url = id)

\* the process starts on a found cache; the fetcher's disk cache has the page
\* of every url record
TickInit ==
    /\ \E cache \in {k \in FoundCaches : FoundCacheValid(k)} :
          /\ diskCache = Some(encode_cache(cache))
          /\ indexFile = write_index_file(build_index_entries(cache))
          /\ fetchCache = [u \in UrlIds |->
                             IF u \in DOMAIN cache.sources /\ cache.sources[u].source_type = "url"
                             THEN "h" ELSE ""]
    /\ files \in [FileIds -> {None, Some([text |-> "h", mtime |-> 0]),
                              Some([text |-> "bin", mtime |-> 1])}]
    /\ links \in {[readable |-> TRUE, lines |-> L] : L \in SUBSET UrlIds}
    /\ clock = 1
    /\ file_sources = {}
    /\ urls = {}
    /\ lock = "free"
    /\ pc = [c \in Callers |-> "idle"]
    /\ now = [c \in Callers |-> 0]
    /\ mem = [c \in Callers |-> NoCache]
    /\ disc = [c \in Callers |-> EmptyMap]
    /\ changed = [c \in Callers |-> FALSE]
    /\ task = [c \in Callers |-> EmptyMap]
    /\ taskText = [c \in Callers |-> EmptyMap]
    /\ urlTasks = [c \in Callers |-> {}]
    /\ urlAny = [c \in Callers |-> FALSE]
    /\ persisting = "none"
    /\ applied = EmptyMap
    /\ loaded = EmptyMap
    /\ refreshErr = FALSE
    /\ netReqs = {}
    /\ discErr = FALSE
    /\ stableRuns = 0
    /\ tainted = FALSE
    /\ envChanges = 0
    /\ crashes = 0
    /\ built = FALSE
    /\ ticks = 0
    /\ busyCalls = {}
    /\ InitWriter
    /\ InitDownloads
    /\ InitOthers

TickSpec == TickInit /\ [][LiveTick]_vars

\* C31: when _reconcile has returned, every record of the cache has the
\* source_type under which its id was discovered in this tick
C31_TypeIsDiscoveredType ==
    \A c \in Callers :
        pc[c] = "refresh" =>
            \A id \in DOMAIN mem[c].sources :
                id \in DOMAIN disc[c] /\ mem[c].sources[id].source_type = disc[c][id]

\* ------------------------------------------------------- next_check_at gate
\* the tick of c loaded a url record for id and _reconcile kept it
UrlRecordKept(c, id) ==
    /\ id \in DOMAIN loaded
    /\ loaded[id].source_type = "url"
    /\ loaded[id].url # None
    /\ id \in DOMAIN mem[c].sources
    /\ mem[c].sources[id].source_type = "url"

\* next_check_at of the loaded record is not a timestamp, or is not after now
DueAtLoad(c, id) ==
    \/ loaded[id].url[1].next_check_at[1] # "Z"
    \/ loaded[id].url[1].next_check_at[2] <= now[c]

\* C32 as stated: when the refresh step of a tick is over, a kept url record
\* has been sent a request if and only if its next_check_at was due or not a
\* timestamp, and a record that was not due is as it was loaded
C32_RequestIffDue ==
    \A c \in Callers : (pc[c] = "summarize" /\ lock = c) =>
        \A id \in UrlIds : UrlRecordKept(c, id) =>
            /\ id \in netReqs <=> DueAtLoad(c, id)
            /\ ~DueAtLoad(c, id) => mem[c].sources[id] = loaded[id]

\* C32, amended: requests go only to due records, every due record is sent one
\* unless the provider's refresh raised before creating its requests, and a
\* record that was not due is as it was loaded
C32_RequestOnlyIfDue ==
    \A c \in Callers : (pc[c] = "summarize" /\ lock = c) =>
        \A id \in UrlIds : UrlRecordKept(c, id) =>
            /\ id \in netReqs => DueAtLoad(c, id)
            /\ (DueAtLoad(c, id) /\ ~refreshErr) => id \in netReqs
            /\ refreshErr => (id \notin netReqs /\ mem[c].sources[id] = loaded[id])
            /\ ~DueAtLoad(c, id) => mem[c].sources[id] = loaded[id]

\* a record whose next_check_at is not a timestamp has been sent a request
C32_Witness ==
    \E c \in Callers :
        /\ pc[c] = "summarize"
        /\ lock = c
        /\ UrlRecordKept(c, "b")
        /\ loaded["b"].url[1].next_check_at[1] = "bad"
        /\ "b" \in netReqs
        /\ ~refreshErr

\* ------------------------------------------------------------ re-validation
\* Lines 190-196 of _summarize_one on their own: the enrichment call of a task
\* returns while the cache it was given may have been changed by others.  A
\* cached record is [obj, summary_pending, summary_text]; obj tells one record
\* object from another.

\* _summarize_pending creates a task per pending record of the persisted cache
RvSummarizePending ==
    /\ \A id \in RvIds : rvTask[id].state = "none"
    /\ rvCache' = [id \in RvIds |-> Some([obj |-> 1, summary_pending |-> TRUE, summary_text |-> ""])]
    /\ rvDisk' = rvCache'
    /\ rvTask' = [id \in RvIds |-> [record |-> 1, state |-> "llm"]]
    /\ UNCHANGED notRevalVars

\* while a call is in flight the cache comes to map the id to another record
RvReplaced(id) ==
    /\ rvTask[id].state = "llm"
    /\ rvCache[id] # Some([obj |-> 2, summary_pending |-> TRUE, summary_text |-> ""])
    /\ rvCache' = [rvCache EXCEPT ![id] =
                      Some([obj |-> 2, summary_pending |-> TRUE, summary_text |-> ""])]
    /\ UNCHANGED <<rvTask, rvDisk, notRevalVars>>

\* while a call is in flight the id leaves the cache
RvRemoved(id) ==
    /\ rvTask[id].state = "llm"
    /\ rvCache[id] # None
    /\ rvCache' = [rvCache EXCEPT ![id] = None]
    /\ UNCHANGED <<rvTask, rvDisk, notRevalVars>>

\* while a call is in flight the record gets a summary from elsewhere
RvSettled(id) ==
    /\ rvTask[id].state = "llm"
    /\ rvCache[id] # None
    /\ rvCache[id][1].summary_pending
    /\ rvCache' = [rvCache EXCEPT ![id] =
                      Some([@[1] EXCEPT !.summary_pending = FALSE, !.summary_text = "s_w"])]
    /\ UNCHANGED <<rvTask, rvDisk, notRevalVars>>

\* a check that takes any record under the id
StillPresent(current, record) == current # None

\* `current is not record or not current.summary_pending` does not hold
StillSameAndPending(current, record) ==
    /\ current # None
    /\ current[1].obj = record
    /\ current[1].summary_pending

\* the enrichment call returns: the result is applied and persisted, or dropped
RvCallReturns(id) ==
    /\ rvTask[id].state = "llm"
    /\ IF StillSameAndPending(rvCache[id], rvTask[id].record)
       THEN /\ rvCache' = [rvCache EXCEPT ![id] =
                             Some([@[1] EXCEPT !.summary_pending = FALSE, !.summary_text = "s_h"])]
            /\ rvDisk' = rvCache'
            /\ rvTask' = [rvTask EXCEPT ![id].state = "applied"]
       ELSE /\ rvTask' = [rvTask EXCEPT ![id].state = "discarded"]
            /\ UNCHANGED <<rvCache, rvDisk>>
    /\ UNCHANGED notRevalVars

\* the enrichment call raises
RvCallRaises(id) ==
    /\ rvTask[id].state = "llm"
    /\ rvTask' = [rvTask EXCEPT ![id].state = "failed"]
    /\ UNCHANGED <<rvCache, rvDisk, notRevalVars>>

RevalNext ==
    \/ RvSummarizePending
    \/ \E id \in RvIds : RvReplaced(id)
    \/ \E id \in RvIds : RvRemoved(id)
    \/ \E id \in RvIds : RvSettled(id)
    \/ \E id \in RvIds : RvCallReturns(id)
    \/ \E id \in RvIds : RvCallRaises(id)

RevalSpec == Init /\ [][RevalNext]_vars

\* C34: when the enrichment call of a task ends, its result is written only if
\* the cache still maps the id to the record the task was given and that
\* record is still pending, and then it is persisted; otherwise the cache and
\* the cache file stay as they are
C34_AppliedOnlyIfSameAndPending ==
    [][ \A id \in RvIds :
          (rvTask[id].state = "llm" /\ rvTask'[id].state # "llm") =>
              IF /\ rvCache[id] # None
                 /\ rvCache[id][1].obj = rvTask[id].record
                 /\ rvCache[id][1].summary_pending
                 /\ rvTask'[id].state # "failed"
              THEN /\ rvTask'[id].state = "applied"
                   /\ rvCache'[id] = Some([rvCache[id][1] EXCEPT !.summary_pending = FALSE,
                                                                  !.summary_text = "s_h"])
                   /\ rvDisk' = rvCache'
              ELSE /\ rvTask'[id].state \in {"discarded", "failed"}
                   /\ rvCache' = rvCache
                   /\ rvDisk' = rvDisk
      ]_vars

\* one result was applied, and one was dropped because the cache held another
\* pending record under the id
C34_Witness ==
    /\ rvTask["p1"].state = "applied"
    /\ rvDisk["p1"] # None
    /\ rvDisk["p1"][1].summary_text = "s_h"
    /\ rvTask["p2"].state = "discarded"
    /\ rvCache["p2"] = Some([obj |-> 2, summary_pending |-> TRUE, summary_text |-> ""])

\* ------------------------------------------------------------ WebFetcher
\* kb/web_fetcher.py.  A page body is a sequence of elements, "script" for a
\* tag _clean_content drops and "text" for one it keeps; the size of a content
\* is its length.  wfCache[u] is the cache file named by the digest of u,
\* wfBrowser tells whether the caller holds a started browser, wfLast is the
\* last call of fetch: what the cache held before, whether the page was
\* requested, how the call ended (why) and what it gave back (out, None when
\* an exception left fetch).

MaxFetches == 3
max_source_bytes == 2

RawPages == {<<"script">>, <<"text">>, <<"script", "text">>,
             <<"text", "script", "text">>, <<"text", "text", "text">>}

_clean_content(html_content) == SelectSeq(html_content, LAMBDA e : e # "script")

\* the proper prefixes of a content: what an interrupted write_text leaves
Truncated(content) == {SubSeq(content, 1, k) : k \in 0..(Len(content) - 1)}

Fetches == IF wfLast = None THEN 0 ELSE wfLast[1].n

Called(url, before, net, why, out) ==
    Some([n |-> Fetches + 1, url |-> url, before |-> before, net |-> net,
          why |-> why, out |-> out])

\* start(): the browser is launched, or the launch fails and start raises
WebFetcher_start ==
    /\ ~wfBrowser
    /\ wfBrowser' \in BOOLEAN
    /\ wfBrowser' \/ wfLast # None
    /\ UNCHANGED <<wfCache, wfLast, notFetchVars>>

\* stop()
WebFetcher_stop ==
    /\ wfBrowser
    /\ wfBrowser' = FALSE
    /\ UNCHANGED <<wfCache, wfLast, notFetchVars>>

\* line 96 does not hold
WithinLimit(content) == Len(content) <= max_source_bytes

\* fetch(url), lines 52-111
WebFetcher_fetch(url) ==
    /\ Fetches < MaxFetches
    /\ UNCHANGED <<wfBrowser, notFetchVars>>
    /\ IF wfCache[url] # None
       THEN \* 66-68
            /\ wfLast' = Called(url, wfCache[url], FALSE, "hit", wfCache[url])
            /\ UNCHANGED wfCache
       ELSE \/ \* 74-75: no browser yet and start() raises
               /\ ~wfBrowser
               /\ wfLast' = Called(url, None, FALSE, "exception", None)
               /\ UNCHANGED wfCache
            \/ \* 80: new_page raises outside the inner try
               /\ wfLast' = Called(url, None, FALSE, "exception", None)
               /\ UNCHANGED wfCache
            \/ \* 86-89: goto or inner_html raises, or the timeout passes
               /\ \E why \in {"exception", "timeout"} :
                     wfLast' = Called(url, None, TRUE, why, Some(<<>>))
               /\ UNCHANGED wfCache
            \/ \* 89-103: the page gave a body
               \E raw \in RawPages :
                  LET content == _clean_content(raw) IN
                  IF ~WithinLimit(content)
                  THEN /\ wfLast' = Called(url, None, TRUE, "too_large", Some(<<>>))
                       /\ UNCHANGED wfCache
                  ELSE \/ /\ wfCache' = [wfCache EXCEPT ![url] = Some(content)]
                          /\ wfLast' = Called(url, None, TRUE, "ok", Some(content))
                       \/ \* 101: write_text raises before or while writing
                          /\ \E left \in {None} \cup {Some(t) : t \in Truncated(content)} :
                                wfCache' = [wfCache EXCEPT ![url] = left]
                          /\ wfLast' = Called(url, None, TRUE, "exception", Some(<<>>))

FetchNext ==
    \/ WebFetcher_start
    \/ WebFetcher_stop
    \/ \E url \in WfUrls : WebFetcher_fetch(url)

FetchSpec == Init /\ [][FetchNext]_vars

\* C38: a successful fetch leaves the cleaned content in the cache entry of the
\* url and returns it; a fetch that finds an entry returns it without a
\* request; a failed fetch (exception, timeout, cleaned content above
\* max_source_bytes) returns the empty content and leaves no cache entry
C38_FetcherCache ==
    wfLast # None =>
        LET l == wfLast[1] IN
        /\ l.why = "hit" =>
              /\ ~l.net
              /\ l.out = l.before
              /\ wfCache[l.url] = l.before
        /\ l.why = "ok" =>
              /\ l.net
              /\ \E raw \in RawPages : l.out = Some(_clean_content(raw))
              /\ l.out # None
              /\ wfCache[l.url] = l.out
        /\ l.why \in {"exception", "timeout", "too_large"} =>
              /\ l.out = Some(<<>>)
              /\ wfCache[l.url] = None
        /\ l.before # None <=> l.why = "hit"

\* ------------------------------------------------------------ start and stop
\* kb/impl.py 122-147 with several callers on one event loop.  Loop tasks are
\* numbered in the order create_task made them; rtLoop[t] is the position of
\* loop task t in _runtime_loop, rtTask is _runtime_task, rtEvent is
\* _stop_event, rtCall[c] is what caller c is in: nothing, the await of
\* stop_runtime_refresh (with the task it awaits), or just back from it.

MaxLoopTasks == 3

RunningLoops == {t \in DOMAIN rtLoop : rtLoop[t] # "done"}

\* line 123: `self._runtime_task and not self._runtime_task.done()`
TaskIsRunning == rtTask # None /\ rtLoop[rtTask[1]] # "done"

\* start_runtime_refresh(): a plain function, one step
StartRuntimeRefresh(c) ==
    /\ rtCall[c].pc # "await"
    /\ rtMade < MaxLoopTasks
    /\ rtCall' = [rtCall EXCEPT ![c] = [pc |-> "idle", task |-> 0]]
    /\ IF TaskIsRunning
       THEN UNCHANGED <<rtTask, rtLoop, rtEvent, rtMade>>
       ELSE /\ rtEvent' = FALSE
            /\ rtMade' = rtMade + 1
            /\ rtTask' = Some(rtMade + 1)
            /\ rtLoop' = [t \in DOMAIN rtLoop \cup {rtMade + 1} |->
                            IF t = rtMade + 1 THEN "test" ELSE rtLoop[t]]
    /\ UNCHANGED notRtVars

\* stop_runtime_refresh() up to its await
StopRuntimeRefresh(c) ==
    /\ rtCall[c].pc # "await"
    /\ IF rtTask = None
       THEN /\ rtCall' = [rtCall EXCEPT ![c] = [pc |-> "returned", task |-> 0]]
            /\ UNCHANGED rtEvent
       ELSE /\ rtEvent' = TRUE
            /\ rtCall' = [rtCall EXCEPT ![c] = [pc |-> "await", task |-> rtTask[1]]]
    /\ UNCHANGED <<rtTask, rtLoop, rtMade, notRtVars>>

\* the awaited task is done: stop_runtime_refresh resumes, line 133, and returns
StopResumes(c) ==
    /\ rtCall[c].pc = "await"
    /\ rtLoop[rtCall[c].task] = "done"
    /\ rtTask' = None
    /\ rtCall' = [rtCall EXCEPT ![c] = [pc |-> "returned", task |-> 0]]
    /\ UNCHANGED <<rtLoop, rtEvent, rtMade, notRtVars>>

\* _runtime_loop of task t: the while test, the tick, the wait on the event
RuntimeLoopStep(t) ==
    /\ t \in DOMAIN rtLoop
    /\ rtLoop[t] # "done"
    /\ rtLoop' = [rtLoop EXCEPT ![t] =
                     CASE @ = "test" -> IF rtEvent THEN "done" ELSE "tick"
                       [] @ = "tick" -> "wait"
                       [] @ = "wait" -> "test"]
    /\ UNCHANGED <<rtTask, rtEvent, rtCall, rtMade, notRtVars>>

StartStopNext ==
    \/ \E c \in RtCallers : StartRuntimeRefresh(c)
    \/ \E c \in RtCallers : StopRuntimeRefresh(c)
    \/ \E c \in RtCallers : StopResumes(c)
    \/ \E t \in 1..MaxLoopTasks : RuntimeLoopStep(t)

StartStopSpec == Init /\ [][StartStopNext]_vars

\* C39: at any time at most one loop task is running, and when a call of
\* stop_runtime_refresh returns no loop task is running
C39_AtMostOneLoop ==
    /\ [](Cardinality(RunningLoops) <= 1)
    /\ [][ \A c \in RtCallers :
             (rtCall[c].pc # "returned" /\ rtCall'[c].pc = "returned") =>
                 {t \in DOMAIN rtLoop' : rtLoop'[t] # "done"} = {}
       ]_vars

\* ------------------------------------------------------------ team queue
\* team_kb/team_kb_manager.py 290-348 over the raw archive above, without a
\* configured cursor.  qstate is last_processed_qa_id of state.json, qmem the
\* one of the state object of the running call, qpending the pairs load_since
\* gave the call (loaded) and those the loop has not reached (left), qprev the
\* id of the pair the loop handled last, qdone the ids of the pairs whose
\* _classify_and_integrate returned.

\* a.timestamp < b.timestamp for the timestamps of the ids a and b: the strings
\* "...SS.ffffffZ" and "...SSZ" differ first where one has "." and the other
\* "Z", and "." is the smaller character
TimestampLess(a, b) ==
    \/ a[1] < b[1]
    \/ a[1] = b[1] /\ a[2] < b[2]
    \/ /\ a[1] = b[1]
       /\ a[2] = b[2]
       /\ \/ Len(a) = 3 /\ Len(b) = 2
          \/ Len(a) = 3 /\ Len(b) = 3 /\ a[3] < b[3]

\* the pairs that can stand first in a list sorted by timestamp
FirstByTimestamp(pairs) == {p \in pairs : \A q \in pairs : ~TimestampLess(q.id, p.id)}

\* process_pending_items, 321-326: _load_state and load_since
ProcessBegin ==
    /\ qpc = "idle"
    /\ qmem' = qstate
    /\ qpending' = [loaded |-> load_since(qstate), left |-> load_since(qstate)]
    /\ qprev' = None
    /\ qpc' = "loop"
    /\ UNCHANGED <<qstate, qdone, notQVars>>

\* 329-340: the next pair of the list; _classify_and_integrate returns, the
\* state object gets the id and _save_state writes it or fails and only logs;
\* or _classify_and_integrate raises and the loop ends
ProcessPair ==
    /\ qpc = "loop"
    /\ \E qa_pair \in FirstByTimestamp(qpending.left) :
          /\ qprev' = Some(qa_pair.id)
          /\ \/ /\ qmem' = Some(qa_pair.id)
                /\ qstate' \in {qmem', qstate}
                /\ qdone' = qdone \cup {qa_pair.id}
                /\ qpending' = [qpending EXCEPT !.left = @ \ {qa_pair}]
                /\ UNCHANGED qpc
             \/ /\ qpc' = "idle"
                /\ qpending' = [qpending EXCEPT !.left = {}]
                /\ UNCHANGED <<qmem, qstate, qdone>>
    /\ UNCHANGED notQVars

\* the list is exhausted; 342-348, the topic indexer runs, the call returns
ProcessEnd ==
    /\ qpc = "loop"
    /\ qpending.left = {}
    /\ qpc' = "idle"
    /\ UNCHANGED <<qstate, qmem, qpending, qprev, qdone, notQVars>>

QueueNext ==
    \/ ArchiveAppend
    \/ NextWeek
    \/ ProcessBegin
    \/ ProcessPair
    \/ ProcessEnd

QueueSpec == Init /\ [][QueueNext]_vars

\* C40: within a call the pairs are handled in ascending order of their ids;
\* the persisted cursor changes only to the id of a pair that was integrated;
\* and when it changes, every pair the call loaded whose id is not above the
\* new cursor has been integrated
C40_CursorFollowsSuccess ==
    [][ /\ (qprev # None /\ qprev' # None /\ qprev' # qprev) =>
              StrGreater(qprev'[1], qprev[1])
        /\ qstate' # qstate =>
              /\ qstate' # None
              /\ qstate'[1] \in qdone'
              /\ \A p \in qpending.loaded :
                    ~StrGreater(p.id, qstate'[1]) => p.id \in qdone'
      ]_vars

====
